---- MODULE Spec2Model ----
(***************************************************************************)
(* Security interceptor pipeline of new-openclaw: rate limiters            *)
(* (internal/middleware/jwt.go, second half), nonce ledger of the          *)
(* signature validator (internal/middleware/signature.go), audit logger    *)
(* (audit.go) and the middleware chain installed by cmd/server/main.go.    *)
(***************************************************************************)
EXTENDS Integers, Sequences, FiniteSets, TLC

\* ---------------------------------------------------------------- bounds
MaxTime == 4        \* the clock runs over 0..MaxTime
MaxWindow == 2      \* RateLimitConfig.Window ranges over 1..MaxWindow
MaxN == 2           \* RateLimitConfig.MaxRequests ranges over 0..MaxN
MaxBurst == 4       \* requests of one key inside one fixed window
MaxExpiry == 2      \* SignatureConfig.Expiry ranges over 1..MaxExpiry
MaxTolerance == 1   \* SignatureConfig.TimeTolerance ranges over 0..MaxTolerance
MaxConcTime == 2    \* the clock of the per-goroutine specification
BufferSize == 2     \* AuditConfig.BufferSize, the capacity of logChan
MaxRecords == 4     \* audit records handed to Log in one run
MaxServed == 3      \* requests the server takes in one run
MaxCalls == 3       \* concurrent Allow calls of one key in one run
MaxTTL == 3         \* JWTConfig.TokenExpiry ranges over 0..MaxTTL ticks

\* the limiter keys the requests carry (KeyFunc: c.ClientIP())
Keys == {"10.0.0.1", "6.6.6.6"}

VARIABLES
    now,        \* time.Now(), in ticks
    rlConfig,   \* RateLimitConfig: [Window, MaxRequests]
    entries,    \* RateLimiter.entries: key -> rateLimitEntry
    requests,   \* SlidingWindowRateLimiter.requests: key -> list of times
    fwWin,      \* history: per key, the window the request history defines
    fwLast,     \* history: the last RateLimiter.Allow call and its outcome
    swLog       \* history: per key, the times of the allowed sliding calls

VARIABLES
    sigConfig,      \* SignatureConfig: [Expiry, TimeTolerance]
    nonceStore,     \* the package-level nonceStore map: nonce -> first-seen time
    cleanups,       \* cleanupNonce goroutines started and not yet run
    passLog,        \* history: per nonce, the times a request passed the nonce step
    sigLast,        \* history: the last validation and its outcome
    gpc,            \* per serving goroutine, its position in the validator
    greq,           \* per serving goroutine, the request it validates
    gnow            \* per serving goroutine, its local `now` (signature.go:109)

VARIABLES
    auditConfig,    \* AuditConfig: [Enabled, Async]
    logChan,        \* AuditLogger.logChan: the buffered records, oldest first
    chanClosed,     \* close(l.logChan) has run
    file,           \* the lines written to the sinks, in order
    fileClosed,     \* l.file.Close() has run
    writerPc,       \* asyncWriter: "recv", "write", "done"; "none" when not async
    writerItem,     \* the record asyncWriter received and has not yet written
    closePc,        \* AuditLogger.Close: "open", "waiting", "closed"
    nextRec,        \* the number of the next record handed to Log
    accepted,       \* history: the records whose Log call returned
    refused,        \* history: the records whose Log call panicked
    atClose,        \* history: the records buffered when Close was called
    lastLog         \* history: the last Log call and the path it took

VARIABLES
    ipFilter,       \* IPFilter: config flags, exact sets and CIDR block lists
    inflight,       \* the request being served, its inputs
    phase,          \* "idle", "running" (in the chain), "finished"
    idx,            \* gin Context.index: the position in the handler chain
    aborted,        \* c.Abort() was called
    status,         \* c.Writer.Status()
    ctxRole,        \* the "role" annotation of the context, "" when absent
    auditOpen,      \* the audit middleware is inside its c.Next()
    served,         \* the number of requests taken so far
    exited,         \* os.Exit was called
    trace,          \* history: the stages that ran for the request, in order
    rejectedBy,     \* history: the stage that rejected the request, or ""
    mutated,        \* history: a stage of the request changed shared state
    reqLogs         \* history: the audit records submitted for the request

VARIABLES
    tsLast          \* history: the last validation of the timestamp study

VARIABLES
    signConfig,     \* SignatureConfig: [ValidateBody, Algorithm, SecretKey]
    cin,            \* the arguments of a client's GenerateSignature call
    cout,           \* what GenerateSignature returned
    sreq,           \* the request that was sent
    first,          \* history: the validation of the request that was sent
    second,         \* history: the validation of the altered request
    sphase          \* "input", "signed", "sent", "verified", "done"

VARIABLES
    filt,           \* an IPFilter: flags, exact sets and CIDR block lists
    ires            \* history: the last IsAllowed call on filt and its result

VARIABLES
    lpc,            \* per goroutine, its position in an IPFilter call
    lop,            \* per goroutine, the call it runs and its argument
    lseen,          \* per goroutine, what its lookup read in the exact map
    lhist           \* history: the last lookup that returned, its result
                    \* and the decision on the rule set at its return

pipeVars == <<ipFilter, inflight, phase, idx, aborted, status, ctxRole, auditOpen,
              served, exited, trace, rejectedBy, mutated, reqLogs>>
auditVars == <<auditConfig, logChan, chanClosed, file, fileClosed, writerPc,
               writerItem, closePc, nextRec, accepted, refused, atClose,
               lastLog>>
rlVars == <<rlConfig, entries, requests, fwWin, fwLast, swLog>>
nonceVars == <<sigConfig, nonceStore, cleanups, passLog, sigLast>>
goVars == <<gpc, greq, gnow>>
tsVars == <<tsLast>>
signVars == <<signConfig, cin, cout, sreq, first, second, sphase>>
ipVars == <<filt, ires>>
VARIABLES
    cunder,         \* the limiter the goroutines call: "fixed" or "sliding"
    cpc,            \* per goroutine, its position in Allow
    cloc,           \* per goroutine, the locals of its Allow call
    mu,             \* rl.mu: its holder, "" when free
    spc,            \* the cleanup goroutine: "wait", "lock", "sweep"
    cwin,           \* history: the window of the calls of the key, the
                    \* number of calls in it and how many returned true
    cstarted        \* history: the number of Allow calls started

VARIABLES
    rreq,           \* the request at a RequireRole guard: the guard, the
                    \* annotation it finds and its list of roles
    rphase,         \* "idle", "guard", "next", "done"
    rout            \* the status written, c.Abort() called, next stage ran

VARIABLES
    tok,            \* the token GenerateToken returned
    tissue,         \* history: when, with which ttl and for whom it was issued
    tres,           \* history: the last ParseToken call on it and its result
    tguard,         \* history: the last request at the JWT guard, its outcome
    tphase          \* "idle", "issued"

VARIABLES
    swpc,           \* per limiter, its cleanup goroutine: "wait" (for the
                    \* ticker), "sweep", "stopped"
    pexit           \* the process has exited

VARIABLES
    mbody,          \* the body of a request, decoded, and whether its text
                    \* is longer than MaxRequestBodySize
    mfields,        \* AuditConfig.SensitiveFields
    mlogged,        \* AuditLog.RequestBody
    mphase          \* "body", "logged"

VARIABLES
    aconf,          \* AuditConfig: Enabled, ExcludePaths, LogRequestBody
    areq,           \* the request at the audit stage: path, X-Request-ID
                    \* header, body
    aset,           \* what the audit stage did to the request: the
                    \* request_id annotation, body read, next stage ran
    asnap,          \* history: the records handed to Log when it arrived
    aphase          \* "idle", "audit", "next", "after", "done"

VARIABLES
    swKeys,         \* the keys present in SlidingWindowRateLimiter.requests
    shadowE,        \* history: RateLimiter.entries had no sweep ever run
    shadowR,        \* history: the sliding lists had no sweep ever run
    plog,           \* history: per key, its requests: time and both decisions
    plast           \* history: the last call (Allow or a sweep), its time,
                    \* its decisions and the maps before it

VARIABLES
    xreq,           \* the request at a guard: the guard and what is wrong with it
    xresp,          \* the last response a guard wrote: status, body code, Abort
    xphase          \* "idle", "at" the guard, "aborted", "next"

VARIABLES
    bodyReq,        \* the request being served: the two configurations, the
                    \* order of the stages and the body the client sent
    reqBody,        \* c.Request.Body: the bytes not yet read from it
    bodyLog         \* what each stage that has run got from the body

VARIABLES
    auditStage,     \* the audit stage an entry point installed, and whether
                    \* the audit logger could be created
    stageLog        \* what the installed stage did with each request

lockVars == <<lpc, lop, lseen, lhist>>
concVars == <<cunder, cpc, cloc, mu, spc, cwin, cstarted>>
roleVars == <<rreq, rphase, rout>>
tokVars == <<tok, tissue, tres, tguard, tphase>>
sweepVars == <<swpc, pexit>>
maskVars == <<mbody, mfields, mlogged, mphase>>
exclVars == <<aconf, areq, aset, asnap, aphase>>
pairVars == <<swKeys, shadowE, shadowR, plog, plast>>
guardVars == <<xreq, xresp, xphase>>
bodyVars == <<bodyReq, reqBody, bodyLog>>
ctorVars == <<auditStage, stageLog>>
notConc == <<roleVars, tokVars, sweepVars, maskVars, exclVars, pairVars, guardVars, bodyVars, ctorVars>>
notRole == <<concVars, tokVars, sweepVars, maskVars, exclVars, pairVars, guardVars, bodyVars, ctorVars>>
notTok == <<concVars, roleVars, sweepVars, maskVars, exclVars, pairVars, guardVars, bodyVars, ctorVars>>
notSweep == <<concVars, roleVars, tokVars, maskVars, exclVars, pairVars, guardVars, bodyVars, ctorVars>>
notMask == <<concVars, roleVars, tokVars, sweepVars, exclVars, pairVars, guardVars, bodyVars, ctorVars>>
notExcl == <<concVars, roleVars, tokVars, sweepVars, maskVars, pairVars, guardVars, bodyVars, ctorVars>>
notPair == <<concVars, roleVars, tokVars, sweepVars, maskVars, exclVars, guardVars, bodyVars, ctorVars>>
notGuard == <<concVars, roleVars, tokVars, sweepVars, maskVars, exclVars, pairVars, bodyVars, ctorVars>>
notBody == <<concVars, roleVars, tokVars, sweepVars, maskVars, exclVars, pairVars, guardVars, ctorVars>>
notCtor == <<concVars, roleVars, tokVars, sweepVars, maskVars, exclVars, pairVars, guardVars, bodyVars>>
laterVars == <<concVars, roleVars, tokVars, sweepVars, maskVars, exclVars, pairVars, guardVars, bodyVars, ctorVars>>
extVars == <<tsVars, signVars, ipVars, lockVars, laterVars>>
baseVars == <<now, rlVars, nonceVars, goVars, auditVars, pipeVars>>
vars == <<baseVars, extVars>>

\* ------------------------------------------------------------ time
\* time.Time.Sub
Sub(a, b) == a - b

\* the clock advances (time.Now is monotonic)
Tick ==
    /\ now < MaxTime
    /\ now' = now + 1

\* the clock advances and nothing else happens
RLTick == Tick /\ UNCHANGED <<rlVars, nonceVars, goVars, extVars, auditVars, pipeVars>>

\* the clock of the specifications that follow single goroutines
ConcTick == now < MaxConcTime /\ RLTick

\* ------------------------------------------------- fixed-window limiter
\* rateLimitEntry; a key that is not in the map is the entry with exists = FALSE
NoEntry == [exists |-> FALSE, count |-> 0, startTime |-> 0]

\* NewRateLimiter: empty map
NewRateLimiter == [k \in Keys |-> NoEntry]

RateLimiterAllow_NoLimitCheck(ents, key, t, cfg) ==
    LET entry == ents[key] IN
    IF ~entry.exists \/ Sub(t, entry.startTime) > cfg.Window
    THEN [ok |-> TRUE,
          entries |-> [ents EXCEPT ![key] =
                          [exists |-> TRUE, count |-> 1, startTime |-> t]]]
    ELSE IF entry.count > cfg.MaxRequests
    THEN [ok |-> FALSE, entries |-> ents]
    ELSE [ok |-> TRUE, entries |-> [ents EXCEPT ![key].count = @ + 1]]

RateLimiterAllow_ResetAtWindow(ents, key, t, cfg) ==
    LET entry == ents[key] IN
    IF ~entry.exists \/ Sub(t, entry.startTime) >= cfg.Window
    THEN [ok |-> TRUE,
          entries |-> [ents EXCEPT ![key] =
                          [exists |-> TRUE, count |-> 1, startTime |-> t]]]
    ELSE IF entry.count >= cfg.MaxRequests
    THEN [ok |-> FALSE, entries |-> ents]
    ELSE [ok |-> TRUE, entries |-> [ents EXCEPT ![key].count = @ + 1]]

RateLimiterAllow_CountRejected(ents, key, t, cfg) ==
    LET entry == ents[key] IN
    IF ~entry.exists \/ Sub(t, entry.startTime) > cfg.Window
    THEN [ok |-> TRUE,
          entries |-> [ents EXCEPT ![key] =
                          [exists |-> TRUE, count |-> 1, startTime |-> t]]]
    ELSE IF entry.count >= cfg.MaxRequests
    THEN [ok |-> FALSE, entries |-> [ents EXCEPT ![key].count = @ + 1]]
    ELSE [ok |-> TRUE, entries |-> [ents EXCEPT ![key].count = @ + 1]]

RateLimiterAllow_SharedWindow(ents, key, t, cfg) ==
    LET entry == ents[key] IN
    IF ~entry.exists \/ Sub(t, entry.startTime) > cfg.Window
    THEN [ok |-> TRUE,
          entries |-> [k \in Keys |->
                          IF k = key \/ ents[k].exists
                          THEN [exists |-> TRUE, count |-> 1, startTime |-> t]
                          ELSE ents[k]]]
    ELSE IF entry.count >= cfg.MaxRequests
    THEN [ok |-> FALSE, entries |-> ents]
    ELSE [ok |-> TRUE, entries |-> [ents EXCEPT ![key].count = @ + 1]]

RateLimiterAllow_RejectRestarts(ents, key, t, cfg) ==
    LET entry == ents[key] IN
    IF ~entry.exists \/ Sub(t, entry.startTime) > cfg.Window
    THEN [ok |-> TRUE,
          entries |-> [ents EXCEPT ![key] =
                          [exists |-> TRUE, count |-> 1, startTime |-> t]]]
    ELSE IF entry.count >= cfg.MaxRequests
    THEN [ok |-> FALSE, entries |-> [ents EXCEPT ![key].startTime = t]]
    ELSE [ok |-> TRUE, entries |-> [ents EXCEPT ![key].count = @ + 1]]

RateLimiterAllow_CountFromZero(ents, key, t, cfg) ==
    LET entry == ents[key] IN
    IF ~entry.exists \/ Sub(t, entry.startTime) > cfg.Window
    THEN [ok |-> TRUE,
          entries |-> [ents EXCEPT ![key] =
                          [exists |-> TRUE, count |-> 0, startTime |-> t]]]
    ELSE IF entry.count >= cfg.MaxRequests
    THEN [ok |-> FALSE, entries |-> ents]
    ELSE [ok |-> TRUE, entries |-> [ents EXCEPT ![key].count = @ + 1]]

\* RateLimiter.Allow: the decision and the map after the call
RateLimiterAllow(ents, key, t, cfg) ==
    LET entry == ents[key] IN
    IF ~entry.exists \/ Sub(t, entry.startTime) > cfg.Window
    THEN [ok |-> TRUE,
          entries |-> [ents EXCEPT ![key] =
                          [exists |-> TRUE, count |-> 1, startTime |-> t]]]
    ELSE IF entry.count >= cfg.MaxRequests
    THEN [ok |-> FALSE, entries |-> ents]
    ELSE [ok |-> TRUE, entries |-> [ents EXCEPT ![key].count = @ + 1]]

RateLimiterCleanup_AtWindow(ents, t, cfg) ==
    [k \in Keys |->
        IF ents[k].exists /\ Sub(t, ents[k].startTime) >= cfg.Window
        THEN NoEntry ELSE ents[k]]

\* RateLimiter.GetRemaining
GetRemaining(ents, key, t, cfg) ==
    LET entry == ents[key] IN
    IF ~entry.exists THEN cfg.MaxRequests
    ELSE IF Sub(t, entry.startTime) > cfg.Window THEN cfg.MaxRequests
    ELSE IF cfg.MaxRequests - entry.count < 0 THEN 0
    ELSE cfg.MaxRequests - entry.count

\* RateLimiter.cleanup, one tick of the ticker: the map after the sweep
RateLimiterCleanup(ents, t, cfg) ==
    [k \in Keys |->
        IF ents[k].exists /\ Sub(t, ents[k].startTime) > cfg.Window
        THEN NoEntry ELSE ents[k]]

\* the window that the history of requests of one key defines: it starts at
\* the first request, and again at the first request made more than Window
\* after its start; idx numbers the requests of the window from 1
NextWin(win, t, cfg) ==
    IF win.idx = 0 \/ Sub(t, win.start) > cfg.Window
    THEN [start |-> t, idx |-> 1]
    ELSE [start |-> win.start, idx |-> win.idx + 1]

\* a request for key goes through RateLimiter.Allow
FWAllow(key) ==
    /\ NextWin(fwWin[key], now, rlConfig).idx <= MaxBurst
    /\ LET r == RateLimiterAllow(entries, key, now, rlConfig)
           w == NextWin(fwWin[key], now, rlConfig) IN
        /\ entries' = r.entries
        /\ fwWin' = [fwWin EXCEPT ![key] = w]
        /\ fwLast' = [key |-> key, idx |-> w.idx, ok |-> r.ok, at |-> now,
                      entry |-> r.entries[key], prevIdx |-> fwWin[key].idx]
    /\ UNCHANGED <<now, rlConfig, requests, swLog, nonceVars, goVars, extVars, auditVars, pipeVars>>

\* the sweep goroutine of the fixed-window limiter runs once
FWCleanup ==
    /\ entries' = RateLimiterCleanup(entries, now, rlConfig)
    /\ UNCHANGED <<now, rlConfig, requests, fwWin, fwLast, swLog, nonceVars, goVars, extVars, auditVars, pipeVars>>

\* ----------------------------------------------- sliding-window limiter
RECURSIVE FilterValid_Exclusive(_, _, _)
FilterValid_Exclusive(times, t, cfg) ==
    IF times = <<>> THEN <<>>
    ELSE IF Sub(t, Head(times)) < cfg.Window
         THEN <<Head(times)>> \o FilterValid_Exclusive(Tail(times), t, cfg)
         ELSE FilterValid_Exclusive(Tail(times), t, cfg)

\* the elements of s that satisfy Keep, in order
RECURSIVE FilterValid(_, _, _)
FilterValid(times, t, cfg) ==
    IF times = <<>> THEN <<>>
    ELSE IF Sub(t, Head(times)) <= cfg.Window
         THEN <<Head(times)>> \o FilterValid(Tail(times), t, cfg)
         ELSE FilterValid(Tail(times), t, cfg)

\* NewSlidingWindowRateLimiter: empty map (a missing key reads as the nil list)
NewSlidingWindowRateLimiter == [k \in Keys |-> <<>>]

SlidingAllow_OffByOne(reqs, key, t, cfg) ==
    LET valid == FilterValid(reqs[key], t, cfg) IN
    IF Len(valid) > cfg.MaxRequests
    THEN [ok |-> FALSE, requests |-> [reqs EXCEPT ![key] = valid]]
    ELSE [ok |-> TRUE, requests |-> [reqs EXCEPT ![key] = Append(valid, t)]]

\* SlidingWindowRateLimiter.Allow: the decision and the map after the call
SlidingAllow(reqs, key, t, cfg) ==
    LET valid == FilterValid(reqs[key], t, cfg) IN
    IF Len(valid) >= cfg.MaxRequests
    THEN [ok |-> FALSE, requests |-> [reqs EXCEPT ![key] = valid]]
    ELSE [ok |-> TRUE, requests |-> [reqs EXCEPT ![key] = Append(valid, t)]]

SlidingCleanup_Exclusive(reqs, t, cfg) ==
    [k \in Keys |-> FilterValid_Exclusive(reqs[k], t, cfg)]

\* SlidingWindowRateLimiter.cleanup, one tick of the ticker; a deleted key
\* reads as the nil list
SlidingCleanup(reqs, t, cfg) ==
    [k \in Keys |-> FilterValid(reqs[k], t, cfg)]

\* a request for key goes through SlidingWindowRateLimiter.Allow
SWAllow(key) ==
    /\ LET r == SlidingAllow(requests, key, now, rlConfig) IN
        /\ requests' = r.requests
        /\ swLog' = [swLog EXCEPT ![key] =
                        IF r.ok THEN Append(@, now) ELSE @]
    /\ UNCHANGED <<now, rlConfig, entries, fwWin, fwLast, nonceVars, goVars, extVars, auditVars, pipeVars>>

\* the sweep goroutine of the sliding-window limiter runs once
SWCleanup ==
    /\ requests' = SlidingCleanup(requests, now, rlConfig)
    /\ UNCHANGED <<now, rlConfig, entries, fwWin, fwLast, swLog, nonceVars, goVars, extVars, auditVars, pipeVars>>

\* -------------------------------------------------- signature validator
\* the nonces requests carry; "" is a request without nonce
Nonces == {"n1", "n2"}

\* a nonce that is not in the map
NoNonce == [exists |-> FALSE, t |-> 0]

\* var nonceStore = make(map[string]time.Time)
EmptyNonceStore == [n \in Nonces |-> NoNonce]

\* the signature parameters of a request: whether a signature is supplied,
\* the timestamp parameter ("missing", "garbage" or "int" with value ts),
\* the nonce, and whether the supplied signature equals the one the server
\* computes over the request; fields that the validator never reads for the
\* request (ts of a non-integer timestamp, all of a request without
\* signature) take one value
SigRequests(times) ==
    {[signature |-> FALSE, tsKind |-> "missing", ts |-> 0, nonce |-> "",
      sigOK |-> FALSE]}
    \cup [signature : {TRUE}, tsKind : {"missing", "garbage"}, ts : {0},
          nonce : {""}, sigOK : {FALSE}]
    \cup [signature : {TRUE}, tsKind : {"int"}, ts : times,
          nonce : Nonces \cup {""}, sigOK : BOOLEAN]

SigPrecheck_ExpiryInclusive(req, t, cfg) ==
    IF ~req.signature \/ req.tsKind = "missing" THEN "missing"
    ELSE IF req.tsKind = "garbage" THEN "badTimestamp"
    ELSE IF Sub(t, req.ts) >= cfg.Expiry \/ Sub(req.ts, t) > cfg.TimeTolerance
         THEN "expired"
    ELSE ""

\* steps 2-4 of APISignatureWithConfig: "" when the request goes on to the
\* nonce step, else the rejection
SigPrecheck(req, t, cfg) ==
    IF ~req.signature \/ req.tsKind = "missing" THEN "missing"
    ELSE IF req.tsKind = "garbage" THEN "badTimestamp"
    ELSE IF Sub(t, req.ts) > cfg.Expiry \/ Sub(req.ts, t) > cfg.TimeTolerance
         THEN "expired"
    ELSE ""

\* steps 6-7: compare the supplied signature with the computed one
SigCompare(req) == IF req.sigOK THEN "pass" ELSE "mismatch"

\* the HTTP status of each outcome of the validator; "pass" calls c.Next()
SigStatus(result) ==
    CASE result = "missing" -> 400
      [] result = "badTimestamp" -> 400
      [] result = "expired" -> 400
      [] result = "duplicate" -> 400
      [] result = "mismatch" -> 401
      [] OTHER -> 0

SigValidate_RecordOnPass(store, req, t, cfg) ==
    LET pre == SigPrecheck(req, t, cfg) IN
    IF pre # "" THEN [result |-> pre, store |-> store, spawned |-> FALSE]
    ELSE IF req.nonce # "" /\ store[req.nonce].exists
    THEN [result |-> "duplicate", store |-> store, spawned |-> FALSE]
    ELSE IF req.nonce # "" /\ req.sigOK
    THEN [result |-> SigCompare(req),
          store |-> [store EXCEPT ![req.nonce] = [exists |-> TRUE, t |-> t]],
          spawned |-> TRUE]
    ELSE [result |-> SigCompare(req), store |-> store, spawned |-> FALSE]

\* APISignatureWithConfig run by one goroutine without interruption: the
\* outcome, the ledger after the call, and whether cleanupNonce was started
SigValidate(store, req, t, cfg) ==
    LET pre == SigPrecheck(req, t, cfg) IN
    IF pre # "" THEN [result |-> pre, store |-> store, spawned |-> FALSE]
    ELSE IF req.nonce # "" /\ store[req.nonce].exists
    THEN [result |-> "duplicate", store |-> store, spawned |-> FALSE]
    ELSE IF req.nonce # ""
    THEN [result |-> SigCompare(req),
          store |-> [store EXCEPT ![req.nonce] = [exists |-> TRUE, t |-> t]],
          spawned |-> TRUE]
    ELSE [result |-> SigCompare(req), store |-> store, spawned |-> FALSE]

CleanupNonce_AtExpiry(store, t, expiry) ==
    [n \in Nonces |->
        IF store[n].exists /\ Sub(t, store[n].t) >= expiry
        THEN NoNonce ELSE store[n]]

\* cleanupNonce: the ledger after one run
CleanupNonce(store, t, expiry) ==
    [n \in Nonces |->
        IF store[n].exists /\ Sub(t, store[n].t) > expiry
        THEN NoNonce ELSE store[n]]

\* whether a validation with this outcome found its nonce absent and recorded it
PassedNonceStep(req, result) ==
    req.nonce # "" /\ result \in {"pass", "mismatch"}

NoValidation == [nonce |-> "", result |-> "", at |-> 0]

\* one request is validated from start to end
Validate(req) ==
    /\ LET r == SigValidate(nonceStore, req, now, sigConfig) IN
        /\ nonceStore' = r.store
        /\ cleanups' = IF r.spawned THEN cleanups + 1 ELSE cleanups
        /\ passLog' = IF PassedNonceStep(req, r.result)
                      THEN [passLog EXCEPT ![req.nonce] = Append(@, now)]
                      ELSE passLog
        /\ sigLast' = [nonce |-> req.nonce, result |-> r.result, at |-> now]
    /\ UNCHANGED <<now, sigConfig, rlVars, goVars, extVars, auditVars, pipeVars>>

\* one cleanupNonce goroutine started by a validation runs
NonceCleanup ==
    /\ cleanups > 0
    /\ cleanups' = cleanups - 1
    /\ nonceStore' = CleanupNonce(nonceStore, now, sigConfig.Expiry)
    /\ UNCHANGED <<now, sigConfig, passLog, sigLast, rlVars, goVars, extVars, auditVars, pipeVars>>

\* one request is validated from start to end; the history keeps the request
\* and whether the call wrote the ledger or started cleanupNonce
ValidateAt(req) ==
    /\ LET r == SigValidate(nonceStore, req, now, sigConfig) IN
        /\ nonceStore' = r.store
        /\ cleanups' = IF r.spawned THEN cleanups + 1 ELSE cleanups
        /\ tsLast' = [req |-> req, at |-> now, result |-> r.result,
                      touched |-> (r.store # nonceStore \/ r.spawned)]
    /\ UNCHANGED <<now, sigConfig, passLog, sigLast, rlVars, goVars, auditVars,
                   pipeVars>>
    /\ UNCHANGED <<signVars, ipVars, lockVars, laterVars>>

\* ---------------------------------- signature validator, per goroutine
\* the goroutines net/http serves requests on
Goroutines == {"g1", "g2"}

NoSigRequest == [signature |-> FALSE, tsKind |-> "missing", ts |-> 0,
                 nonce |-> "", sigOK |-> FALSE]

\* signature.go:66-119: a goroutine takes a request, reads its parameters,
\* takes `now` and checks the timestamp
GoBegin(g, req) ==
    /\ gpc[g] = "idle"
    /\ LET pre == SigPrecheck(req, now, sigConfig) IN
        /\ gpc' = [gpc EXCEPT ![g] =
                     IF pre # "" THEN "idle"
                     ELSE IF req.nonce # "" THEN "lookup" ELSE "compare"]
        /\ greq' = [greq EXCEPT ![g] = IF pre # "" THEN NoSigRequest ELSE req]
        /\ gnow' = [gnow EXCEPT ![g] = IF pre # "" THEN 0 ELSE now]
    /\ UNCHANGED <<now, sigConfig, nonceStore, cleanups, passLog, sigLast, rlVars, auditVars, pipeVars, extVars>>

\* signature.go:123-130: the goroutine reads the map; a recorded nonce is a
\* duplicate
GoLookup(g) ==
    /\ gpc[g] = "lookup"
    /\ IF nonceStore[greq[g].nonce].exists
       THEN /\ gpc' = [gpc EXCEPT ![g] = "idle"]
            /\ greq' = [greq EXCEPT ![g] = NoSigRequest]
            /\ gnow' = [gnow EXCEPT ![g] = 0]
       ELSE /\ gpc' = [gpc EXCEPT ![g] = "record"]
            /\ UNCHANGED <<greq, gnow>>
    /\ UNCHANGED <<now, sigConfig, nonceStore, cleanups, passLog, sigLast, rlVars, auditVars, pipeVars, extVars>>

\* signature.go:131-133: the goroutine writes the map and starts cleanupNonce
GoRecord(g) ==
    /\ gpc[g] = "record"
    /\ nonceStore' = [nonceStore EXCEPT ![greq[g].nonce] =
                         [exists |-> TRUE, t |-> gnow[g]]]
    /\ cleanups' = cleanups + 1
    /\ gpc' = [gpc EXCEPT ![g] = "compare"]
    /\ UNCHANGED <<now, sigConfig, passLog, sigLast, greq, gnow, rlVars, auditVars, pipeVars, extVars>>

\* signature.go:136-152: the goroutine builds the signing string and compares
GoCompare(g) ==
    /\ gpc[g] = "compare"
    /\ gpc' = [gpc EXCEPT ![g] = "idle"]
    /\ greq' = [greq EXCEPT ![g] = NoSigRequest]
    /\ gnow' = [gnow EXCEPT ![g] = 0]
    /\ UNCHANGED <<now, sigConfig, nonceStore, cleanups, passLog, sigLast, rlVars, auditVars, pipeVars, extVars>>

\* ------------------------------------------ canonical signing string
\* A string is a sequence of symbols. "&" and "=" are symbols that the
\* signing string uses as separators and that a value may contain too.

\* the byte order of the symbols that occur in parameter keys and values
Ord(c) ==
    CASE c = "&" -> 38
      [] c = "=" -> 61
      [] c = "K" -> 75
      [] c = "a" -> 97
      [] c = "k" -> 107
      [] c = "p" -> 112
      [] c = "q" -> 113
      [] OTHER -> 0

\* the string of a symbol; the empty string for ""
Str(sym) == IF sym = "" THEN <<>> ELSE <<sym>>

\* a < b as Go compares strings
RECURSIVE StrLess(_, _)
StrLess(a, b) ==
    IF b = <<>> THEN FALSE
    ELSE IF a = <<>> THEN TRUE
    ELSE IF Head(a) = Head(b) THEN StrLess(Tail(a), Tail(b))
    ELSE Ord(Head(a)) < Ord(Head(b))

RECURSIVE InsertSorted(_, _)
InsertSorted(x, sorted) ==
    IF sorted = <<>> THEN <<x>>
    ELSE IF StrLess(x, Head(sorted)) THEN <<x>> \o sorted
    ELSE <<Head(sorted)>> \o InsertSorted(x, Tail(sorted))

\* sort.Strings on a slice
RECURSIVE SortStrings(_)
SortStrings(seq) ==
    IF seq = <<>> THEN <<>>
    ELSE InsertSorted(Head(seq), SortStrings(Tail(seq)))

\* the keys of a map collected by `for key := range` and sorted
RECURSIVE SortedKeys(_)
SortedKeys(S) ==
    IF S = {} THEN <<>>
    ELSE LET m == CHOOSE x \in S : \A y \in S \ {x} : StrLess(x, y)
         IN  <<m>> \o SortedKeys(S \ {m})

\* strings.Join
RECURSIVE Join(_, _)
Join(parts, sep) ==
    IF parts = <<>> THEN <<>>
    ELSE IF Len(parts) = 1 THEN parts[1]
    ELSE parts[1] \o sep \o Join(Tail(parts), sep)

\* strconv.FormatInt(n, 10) for n >= 0
Digits == <<"0", "1", "2", "3", "4", "5", "6", "7", "8", "9">>
RECURSIVE FormatInt(_)
FormatInt(n) ==
    IF n < 10 THEN <<Digits[n + 1]>>
    ELSE FormatInt(n \div 10) \o <<Digits[(n % 10) + 1]>>

\* strconv.ParseInt(s, 10, 64) of a string of digits: -1 for an error
DigitValue(c) == IF \E i \in 1..10 : Digits[i] = c
                 THEN (CHOOSE i \in 1..10 : Digits[i] = c) - 1 ELSE -1
RECURSIVE ParseFrom(_, _)
ParseFrom(s, acc) ==
    IF s = <<>> THEN acc
    ELSE IF DigitValue(Head(s)) < 0 THEN -1
    ELSE ParseFrom(Tail(s), acc * 10 + DigitValue(Head(s)))
ParseInt(s) == IF s = <<>> THEN -1 ELSE ParseFrom(s, 0)

\* the parameter names of the configuration: SignatureParam, TimestampParam,
\* NonceParam, AppKeyParam
SignatureParam == <<"s">>
TimestampParam == <<"t">>
NonceParam == <<"n">>
AppKeyParam == <<"a">>
ReservedParams == {SignatureParam, TimestampParam, NonceParam, AppKeyParam}

\* calculateSignature: HMAC-SHA256 keyed with the secret, or MD5 of
\* data + secret; two digests are equal when algorithm and inputs are
CalculateSignature(data, secretKey, algorithm) ==
    IF algorithm = "md5"
    THEN [alg |-> "md5", key |-> <<>>, data |-> data \o secretKey]
    ELSE [alg |-> "hmac-sha256", key |-> secretKey, data |-> data]

\* signature.go:176-182: key=value for every value of every key, the values
\* of a key sorted
RECURSIVE ValueParts(_, _)
ValueParts(key, values) ==
    IF values = <<>> THEN <<>>
    ELSE <<key \o <<"=">> \o Head(values)>> \o ValueParts(key, Tail(values))
RECURSIVE QueryParts(_, _)
QueryParts(keys, query) ==
    IF keys = <<>> THEN <<>>
    ELSE ValueParts(Head(keys), SortStrings(query[Head(keys)]))
         \o QueryParts(Tail(keys), query)

\* buildSignString: method, path, the non-signature query parameters sorted
\* by key then value, timestamp, nonce and app key when present, the body
\* when ValidateBody is set and the body is not empty, joined with "&"
BuildSignString(req, cfg, timestamp, nonce, appKey) ==
    Join(<<Str(req.method), Str(req.path)>>
         \o QueryParts(SortedKeys(DOMAIN req.query \ ReservedParams), req.query)
         \o <<timestamp>>
         \o (IF nonce # <<>> THEN <<nonce>> ELSE <<>>)
         \o (IF appKey # <<>> THEN <<appKey>> ELSE <<>>)
         \o (IF cfg.ValidateBody /\ req.body # <<>> THEN <<req.body>> ELSE <<>>),
         <<"&">>)

\* GenerateSignature:253-255: key=value for every key of the map, sorted
RECURSIVE ParamParts(_, _)
ParamParts(keys, params) ==
    IF keys = <<>> THEN <<>>
    ELSE <<Head(keys) \o <<"=">> \o params[Head(keys)]>>
         \o ParamParts(Tail(keys), params)

\* GenerateSignature: the signing string of the client
ClientSignString(method, path, params, body, timestamp, nonce) ==
    Join(<<Str(method), Str(path)>>
         \o ParamParts(SortedKeys(DOMAIN params), params)
         \o <<timestamp, nonce>>
         \o (IF body # <<>> THEN <<body>> ELSE <<>>),
         <<"&">>)

\* GenerateSignature at time t with the nonce generateNonce returned
GenerateSignature(method, path, params, body, secretKey, t, nonce) ==
    [signature |-> CalculateSignature(
                       ClientSignString(method, path, params, body,
                                        FormatInt(t), Str(nonce)),
                       secretKey, "hmac-sha256"),
     timestamp |-> FormatInt(t),
     nonce |-> nonce]

\* no X-Signature header
NoDigest == [alg |-> "", key |-> <<>>, data |-> <<>>]

\* the header or, when the header is empty, the first value of the query
\* parameter (c.GetHeader, c.Query)
HeaderOrQuery(req, header, param) ==
    IF req[header] # <<>> THEN req[header]
    ELSE IF param \in DOMAIN req.query THEN req.query[param][1]
    ELSE <<>>

\* signature.go:136-139: the signature the server expects for a request
ExpectedSign(req, cfg) ==
    CalculateSignature(
        BuildSignString(req, cfg,
                        HeaderOrQuery(req, "xTimestamp", TimestampParam),
                        Str(req.xNonce),
                        HeaderOrQuery(req, "xAppKey", AppKeyParam)),
        cfg.SecretKey, cfg.Algorithm)

\* what APISignatureWithConfig reads of a request: the parameters that
\* SigValidate decides on
SigView(req, cfg) ==
    LET timestamp == HeaderOrQuery(req, "xTimestamp", TimestampParam) IN
    [signature |-> req.xSignature # NoDigest,
     tsKind |-> IF timestamp = <<>> THEN "missing"
                ELSE IF ParseInt(timestamp) < 0 THEN "garbage" ELSE "int",
     ts |-> IF ParseInt(timestamp) < 0 THEN 0 ELSE ParseInt(timestamp),
     nonce |-> req.xNonce,
     sigOK |-> req.xSignature = ExpectedSign(req, cfg)]

\* the inputs of the study: methods, paths, parameter values (two of them
\* contain the separator and the key), app keys, bodies
Methods == {"GET", "POST"}
Paths == {"/a", "/b"}
Values == {<<"p">>, <<"q">>, <<"p", "&", "k", "=", "q">>,
           <<"q", "&", "k", "=", "p">>,
           <<"p", "&", "k", "=", "q", "&", "k", "=", "p">>}
AppKeys == {<<"K">>}
Bodies == {<<>>, <<"b">>, <<"c">>}
ParamKeys == {<<"k">>, AppKeyParam}

\* the params argument of GenerateSignature: map[string]string
ParamMaps ==
    {m \in UNION {[D -> Values \cup AppKeys] : D \in SUBSET ParamKeys} :
        \A key \in DOMAIN m : (key = AppKeyParam) <=> (m[key] \in AppKeys)}

ClientInputs == [method : Methods, path : Paths, params : ParamMaps,
                 body : Bodies]
NoInput == [method |-> "", path |-> "", params |-> <<>>, body |-> <<>>]
NoSignature == [signature |-> NoDigest, timestamp |-> <<>>, nonce |-> ""]

\* the request a client sends with the values GenerateSignature returned:
\* the same method, path, params and body, the three values as headers
BuildRequest(in, out, appKey) ==
    [method |-> in.method, path |-> in.path,
     query |-> [key \in DOMAIN in.params |-> <<in.params[key]>>],
     body |-> in.body,
     xSignature |-> out.signature, xTimestamp |-> out.timestamp,
     xNonce |-> out.nonce, xAppKey |-> appKey]

NoSignedRequest == BuildRequest(NoInput, NoSignature, <<>>)

\* url.Values of the requests of a caller that signs with the server's
\* rule: the parameter k with no, one or two values
MultiQueries ==
    {<<>>} \cup {[key \in {<<"k">>} |-> vs] :
                   vs \in {<<v>> : v \in Values}
                          \cup {<<v, w>> : v \in Values, w \in Values}}

\* requests of a caller that signs with the server's rule, before signing
UnsignedRequests(t) ==
    [method : {"GET"}, path : {"/a"}, query : MultiQueries,
     body : {<<>>, <<"b">>},
     xSignature : {NoDigest}, xTimestamp : {FormatInt(t)},
     xNonce : {"", "n1"}, xAppKey : {<<>>} \cup AppKeys]

\* the requests that differ from req in the body, in the path, or in one
\* value of one query parameter, and carry its signature
Tampered(req) ==
    {[req EXCEPT !.body = b] : b \in Bodies \ {req.body}}
    \cup {[req EXCEPT !.path = p] : p \in Paths \ {req.path}}
    \cup UNION {UNION {{[req EXCEPT !.query[key][i] = v] :
                          v \in (Values \cup AppKeys) \ {req.query[key][i]}} :
                       i \in DOMAIN req.query[key]} :
                key \in DOMAIN req.query}

\* the copy of a request that carries its nonce as X-App-Key and no nonce;
\* only a request with a nonce and without app key has one
NonceAsAppKey(req) ==
    IF req.xNonce # "" /\ HeaderOrQuery(req, "xAppKey", AppKeyParam) = <<>>
    THEN {[req EXCEPT !.xNonce = "", !.xAppKey = Str(req.xNonce)]}
    ELSE {}

NoVerdict == [result |-> "", at |-> 0]

\* a client calls GenerateSignature on its inputs
ClientSign(nonce) ==
    /\ sphase = "input" /\ cin # NoInput
    /\ cout' = GenerateSignature(cin.method, cin.path, cin.params, cin.body,
                                 signConfig.SecretKey, now, nonce)
    /\ sphase' = "signed"
    /\ UNCHANGED <<signConfig, cin, sreq, first, second>>
    /\ UNCHANGED <<baseVars, tsVars, ipVars, lockVars, laterVars>>

\* the client sends the request, with or without an X-App-Key header
Send(appKey) ==
    /\ sphase = "signed"
    /\ sreq' = BuildRequest(cin, cout, appKey)
    /\ sphase' = "sent"
    /\ UNCHANGED <<signConfig, cin, cout, first, second>>
    /\ UNCHANGED <<baseVars, tsVars, ipVars, lockVars, laterVars>>

\* a caller that signs with the server's rule sends a request
SendSigned(req) ==
    /\ sphase = "input" /\ cin = NoInput
    /\ sreq' = [req EXCEPT !.xSignature = ExpectedSign(req, signConfig)]
    /\ sphase' = "sent"
    /\ UNCHANGED <<signConfig, cin, cout, first, second>>
    /\ UNCHANGED <<baseVars, tsVars, ipVars, lockVars, laterVars>>

\* APISignatureWithConfig validates the request that was sent
Verify ==
    /\ sphase = "sent"
    /\ LET r == SigValidate(nonceStore, SigView(sreq, signConfig), now,
                            sigConfig) IN
        /\ nonceStore' = r.store
        /\ cleanups' = IF r.spawned THEN cleanups + 1 ELSE cleanups
        /\ first' = [result |-> r.result, at |-> now]
    /\ sphase' = "verified"
    /\ UNCHANGED <<signConfig, cin, cout, sreq, second>>
    /\ UNCHANGED <<now, sigConfig, passLog, sigLast, rlVars, goVars,
                   auditVars, pipeVars, tsVars, ipVars, lockVars, laterVars>>

\* APISignatureWithConfig validates a request that differs from the one it
\* validated in one field and carries the same signature
VerifyTampered(req) ==
    /\ sphase = "verified"
    /\ LET r == SigValidate(nonceStore, SigView(req, signConfig), now,
                            sigConfig) IN
        /\ nonceStore' = r.store
        /\ cleanups' = IF r.spawned THEN cleanups + 1 ELSE cleanups
        /\ second' = [result |-> r.result, at |-> now]
    /\ sphase' = "done"
    /\ UNCHANGED <<signConfig, cin, cout, sreq, first>>
    /\ UNCHANGED <<now, sigConfig, passLog, sigLast, rlVars, goVars,
                   auditVars, pipeVars, tsVars, ipVars, lockVars, laterVars>>

\* --------------------------------------------------------- audit logger
\* the elements of a sequence
Range(seq) == {seq[i] : i \in DOMAIN seq}

\* the number of times x occurs in a sequence
Occurrences(seq, x) == Cardinality({i \in DOMAIN seq : seq[i] = x})

\* no record
NoRecord == 0

\* AuditLogger.writeLog: the sink after the call; WriteString on a closed
\* file fails and the error is ignored
WriteLog(f, fClosed, rec) == IF fClosed THEN f ELSE Append(f, rec)

LoggerLog_DropWhenFull(ch, chClosed, f, fClosed, rec, cfg) ==
    IF cfg.Async
    THEN IF chClosed
         THEN [path |-> "panic", chan |-> ch, file |-> f]
         ELSE IF Len(ch) < BufferSize
         THEN [path |-> "queued", chan |-> Append(ch, rec), file |-> f]
         ELSE [path |-> "sync", chan |-> ch, file |-> f]
    ELSE [path |-> "direct", chan |-> ch, file |-> WriteLog(f, fClosed, rec)]

\* AuditLogger.Log: the path taken, the channel and the sink after the call.
\* A send on a closed channel panics; a full channel takes the default
\* branch of the select
LoggerLog(ch, chClosed, f, fClosed, rec, cfg) ==
    IF cfg.Async
    THEN IF chClosed
         THEN [path |-> "panic", chan |-> ch, file |-> f]
         ELSE IF Len(ch) < BufferSize
         THEN [path |-> "queued", chan |-> Append(ch, rec), file |-> f]
         ELSE [path |-> "sync", chan |-> ch,
               file |-> WriteLog(f, fClosed, rec)]
    ELSE [path |-> "direct", chan |-> ch, file |-> WriteLog(f, fClosed, rec)]

WriterDone_NoWait == TRUE

\* wg.Wait() in Close returns: asyncWriter has left its loop (wg.Done)
WriterDone == writerPc = "done"

NoLog == [rec |-> NoRecord, qlen |-> 0, path |-> ""]

\* the effect of one Log call on the logger and its history
LogEffect(rec) ==
    LET r == LoggerLog(logChan, chanClosed, file, fileClosed, rec, auditConfig) IN
    /\ logChan' = r.chan
    /\ file' = r.file
    /\ accepted' = IF r.path # "panic" THEN accepted \cup {rec} ELSE accepted
    /\ refused' = IF r.path = "panic" THEN refused \cup {rec} ELSE refused
    /\ lastLog' = [rec |-> rec, qlen |-> Len(logChan), path |-> r.path]

\* a caller hands a new record to AuditLogger.Log
LogCall ==
    /\ nextRec <= MaxRecords
    /\ LogEffect(nextRec)
    /\ nextRec' = nextRec + 1
    /\ UNCHANGED <<auditConfig, chanClosed, fileClosed, writerPc, writerItem,
                   closePc, atClose>>
    /\ UNCHANGED <<now, rlVars, nonceVars, goVars, extVars, pipeVars>>

\* asyncWriter receives the oldest buffered record (for ... range l.logChan)
WriterRecv ==
    /\ writerPc = "recv"
    /\ logChan # <<>>
    /\ writerItem' = Head(logChan)
    /\ logChan' = Tail(logChan)
    /\ writerPc' = "write"
    /\ UNCHANGED <<auditConfig, chanClosed, file, fileClosed, closePc, nextRec,
                   accepted, refused, atClose, lastLog>>
    /\ UNCHANGED <<now, rlVars, nonceVars, goVars, extVars, pipeVars>>

\* asyncWriter writes the record it received (l.writeLog)
WriterWrite ==
    /\ writerPc = "write"
    /\ file' = WriteLog(file, fileClosed, writerItem)
    /\ writerItem' = NoRecord
    /\ writerPc' = "recv"
    /\ UNCHANGED <<auditConfig, logChan, chanClosed, fileClosed, closePc,
                   nextRec, accepted, refused, atClose, lastLog>>
    /\ UNCHANGED <<now, rlVars, nonceVars, goVars, extVars, pipeVars>>

\* the range loop ends on the closed and drained channel; deferred wg.Done
WriterExit ==
    /\ writerPc = "recv"
    /\ logChan = <<>>
    /\ chanClosed
    /\ writerPc' = "done"
    /\ UNCHANGED <<auditConfig, logChan, chanClosed, file, fileClosed,
                   writerItem, closePc, nextRec, accepted, refused, atClose,
                   lastLog>>
    /\ UNCHANGED <<now, rlVars, nonceVars, goVars, extVars, pipeVars>>

\* the records buffered in the channel or in the hands of asyncWriter
Pending == Range(logChan) \cup (IF writerItem # NoRecord THEN {writerItem} ELSE {})

\* AuditLogger.Close, first half: close(l.logChan) when the channel exists
CloseBegin ==
    /\ closePc = "open"
    /\ chanClosed' = auditConfig.Async
    /\ atClose' = Pending
    /\ closePc' = "waiting"
    /\ UNCHANGED <<auditConfig, logChan, file, fileClosed, writerPc,
                   writerItem, nextRec, accepted, refused, lastLog>>
    /\ UNCHANGED <<now, rlVars, nonceVars, goVars, extVars, pipeVars>>

\* AuditLogger.Close, second half: l.wg.Wait() returns, then l.file.Close()
CloseFinish ==
    /\ closePc = "waiting"
    /\ auditConfig.Async => WriterDone
    /\ fileClosed' = TRUE
    /\ closePc' = "closed"
    /\ UNCHANGED <<auditConfig, logChan, chanClosed, file, writerPc,
                   writerItem, nextRec, accepted, refused, atClose, lastLog>>
    /\ UNCHANGED <<now, rlVars, nonceVars, goVars, extVars, pipeVars>>

\* ------------------------------------------------------------ IP filter
\* the CIDR blocks of the rule lists and the addresses inside each
CidrBlocks == {"6.6.6.0/24", "10.0.0.0/8"}
BlockContains(block, ip) ==
    \/ block = "6.6.6.0/24" /\ ip = "6.6.6.6"
    \/ block = "10.0.0.0/8" /\ ip = "10.0.0.1"

\* the strings net.ParseIP accepts, among the strings a lookup may get
ValidIPs == {"10.0.0.1", "6.6.6.6", "8.8.8.8"}
Addresses == ValidIPs \cup {"not-an-ip"}

\* the entries with a "/": the blocks net.ParseCIDR accepts and one that it
\* refuses
SlashEntries == CidrBlocks \cup {"6.6.6.0/99"}

\* isPrivateIP
IsPrivateIP(ip) == ip = "10.0.0.1"

\* NewIPFilter: an entry with a "/" goes to the block list when ParseCIDR
\* accepts it and is dropped otherwise, any other entry goes to the exact set
NewIPFilter(config) ==
    [WhitelistMode |-> config.WhitelistMode,
     AllowPrivate |-> config.AllowPrivate,
     whitelist |-> config.Whitelist \ SlashEntries,
     whiteNets |-> config.Whitelist \cap CidrBlocks,
     blacklist |-> config.Blacklist \ SlashEntries,
     blackNets |-> config.Blacklist \cap CidrBlocks]

IsAllowed_PrivateAlways(f, ip) ==
    IF ip \notin ValidIPs THEN FALSE
    ELSE IF f.WhitelistMode
    THEN \/ ip \in f.whitelist
         \/ \E block \in f.whiteNets : BlockContains(block, ip)
         \/ IsPrivateIP(ip)
    ELSE /\ ip \notin f.blacklist
         /\ ~ \E block \in f.blackNets : BlockContains(block, ip)

\* IPFilter.IsAllowed: false for a string net.ParseIP refuses
IsAllowed(f, ip) ==
    IF ip \notin ValidIPs THEN FALSE
    ELSE IF f.WhitelistMode
    THEN \/ ip \in f.whitelist
         \/ \E block \in f.whiteNets : BlockContains(block, ip)
         \/ f.AllowPrivate /\ IsPrivateIP(ip)
    ELSE /\ ip \notin f.blacklist
         /\ ~ \E block \in f.blackNets : BlockContains(block, ip)

\* the entries of the rule lists of the study
Entries == {"6.6.6.6", "10.0.0.1", "6.6.6.0/24", "6.6.6.0/99"}

\* AddToWhitelist, AddToBlacklist: as NewIPFilter treats one entry
AddToWhitelist(f, e) ==
    IF e \in SlashEntries
    THEN [f EXCEPT !.whiteNets = @ \cup ({e} \cap CidrBlocks)]
    ELSE [f EXCEPT !.whitelist = @ \cup {e}]
AddToBlacklist(f, e) ==
    IF e \in SlashEntries
    THEN [f EXCEPT !.blackNets = @ \cup ({e} \cap CidrBlocks)]
    ELSE [f EXCEPT !.blacklist = @ \cup {e}]

\* RemoveFromWhitelist, RemoveFromBlacklist: delete from the exact set
RemoveFromWhitelist(f, e) == [f EXCEPT !.whitelist = @ \ {e}]
RemoveFromBlacklist(f, e) == [f EXCEPT !.blacklist = @ \ {e}]

\* the four mutations by name
Mutations == {"AddToWhitelist", "AddToBlacklist", "RemoveFromWhitelist",
              "RemoveFromBlacklist"}
Mutate(f, kind, e) ==
    CASE kind = "AddToWhitelist" -> AddToWhitelist(f, e)
      [] kind = "AddToBlacklist" -> AddToBlacklist(f, e)
      [] kind = "RemoveFromWhitelist" -> RemoveFromWhitelist(f, e)
      [] OTHER -> RemoveFromBlacklist(f, e)

NoLookup == [ip |-> "", ok |-> FALSE]

\* one IsAllowed call, start to end
IPLookup(ip) ==
    /\ ires' = [ip |-> ip, ok |-> IsAllowed(filt, ip)]
    /\ UNCHANGED filt
    /\ UNCHANGED <<baseVars, tsVars, signVars, lockVars, laterVars>>

\* one mutation, start to end
IPMutate(kind, e) ==
    /\ filt' = Mutate(filt, kind, e)
    /\ filt' # filt
    /\ ires' = NoLookup
    /\ UNCHANGED <<baseVars, tsVars, signVars, lockVars, laterVars>>

\* ------------------------------------------- IP filter, per goroutine
\* the entries and the address of the calls that run concurrently
LockEntries == {"6.6.6.6", "6.6.6.0/24"}
LockAddresses == {"6.6.6.6"}

NoOp == [kind |-> "", arg |-> ""]
NoResult == [ip |-> "", ok |-> FALSE, want |-> FALSE]

\* the goroutines inside f.mu.RLock() ... RUnlock(), and inside
\* f.mu.Lock() ... Unlock()
Readers == {g \in Goroutines : lpc[g] \in {"readExact", "readNets"}}
Writers == {g \in Goroutines : lpc[g] = "write"}

\* sync.RWMutex: RLock returns when no writer holds the lock or waits for it
CanRLock(g) == \A h \in Goroutines : lpc[h] \notin {"lock", "write"}

CanLock_NoExclusion(g) == TRUE

\* sync.RWMutex: Lock returns when no reader and no writer holds the lock
CanLock(g) == Readers = {} /\ Writers = {}

\* a goroutine calls IsAllowed(ip): f.mu.RLock() is pending
StartLookup(g, ip) ==
    /\ lpc[g] = "idle"
    /\ lpc' = [lpc EXCEPT ![g] = "rlock"]
    /\ lop' = [lop EXCEPT ![g] = [kind |-> "IsAllowed", arg |-> ip]]
    /\ UNCHANGED <<filt, ires, lseen, lhist>>
    /\ UNCHANGED <<baseVars, tsVars, signVars, laterVars>>

\* f.mu.RLock() returns
RLockAcquire(g) ==
    /\ lpc[g] = "rlock"
    /\ CanRLock(g)
    /\ lpc' = [lpc EXCEPT ![g] = "readExact"]
    /\ UNCHANGED <<filt, ires, lop, lseen, lhist>>
    /\ UNCHANGED <<baseVars, tsVars, signVars, laterVars>>

\* part_000:143 and 159: the lookup reads the exact map of the mode
ReadExact(g) ==
    /\ lpc[g] = "readExact"
    /\ lseen' = [lseen EXCEPT ![g] =
                    IF filt.WhitelistMode THEN lop[g].arg \in filt.whitelist
                    ELSE lop[g].arg \in filt.blacklist]
    /\ lpc' = [lpc EXCEPT ![g] = "readNets"]
    /\ UNCHANGED <<filt, ires, lop, lhist>>
    /\ UNCHANGED <<baseVars, tsVars, signVars, laterVars>>

\* part_000:146-154 and 162-169: the lookup reads the block list of the
\* mode, returns, and the deferred RUnlock runs
ReadNets(g) ==
    /\ lpc[g] = "readNets"
    /\ LET ip == lop[g].arg
           inNets == IF filt.WhitelistMode
                     THEN \E block \in filt.whiteNets : BlockContains(block, ip)
                     ELSE \E block \in filt.blackNets : BlockContains(block, ip)
           ok == IF ip \notin ValidIPs THEN FALSE
                 ELSE IF filt.WhitelistMode
                 THEN lseen[g] \/ inNets \/ (filt.AllowPrivate /\ IsPrivateIP(ip))
                 ELSE ~lseen[g] /\ ~inNets
       IN  lhist' = [ip |-> ip, ok |-> ok, want |-> IsAllowed(filt, ip)]
    /\ lpc' = [lpc EXCEPT ![g] = "idle"]
    /\ lop' = [lop EXCEPT ![g] = NoOp]
    /\ lseen' = [lseen EXCEPT ![g] = FALSE]
    /\ UNCHANGED <<filt, ires>>
    /\ UNCHANGED <<baseVars, tsVars, signVars, laterVars>>

\* a goroutine calls one of the four mutations: f.mu.Lock() is pending
StartMutate(g, kind, e) ==
    /\ lpc[g] = "idle"
    /\ lpc' = [lpc EXCEPT ![g] = "lock"]
    /\ lop' = [lop EXCEPT ![g] = [kind |-> kind, arg |-> e]]
    /\ UNCHANGED <<filt, ires, lseen, lhist>>
    /\ UNCHANGED <<baseVars, tsVars, signVars, laterVars>>

\* f.mu.Lock() returns
LockAcquire(g) ==
    /\ lpc[g] = "lock"
    /\ CanLock(g)
    /\ lpc' = [lpc EXCEPT ![g] = "write"]
    /\ UNCHANGED <<filt, ires, lop, lseen, lhist>>
    /\ UNCHANGED <<baseVars, tsVars, signVars, laterVars>>

\* the mutation changes the rule set, returns, and the deferred Unlock runs
WriteRules(g) ==
    /\ lpc[g] = "write"
    /\ filt' = Mutate(filt, lop[g].kind, lop[g].arg)
    /\ lpc' = [lpc EXCEPT ![g] = "idle"]
    /\ lop' = [lop EXCEPT ![g] = NoOp]
    /\ UNCHANGED <<ires, lseen, lhist>>
    /\ UNCHANGED <<baseVars, tsVars, signVars, laterVars>>

\* --------------------------------------------- limiters, per goroutine
\* the key all the concurrent calls use
ConcKey == "6.6.6.6"
Limiters == {"fixed", "sliding"}

NoLocal == [ok |-> FALSE, at |-> 0, entry |-> NoEntry, times |-> <<>>]
NoWindow == [start |-> 0, calls |-> 0, allowed |-> 0]

\* the goroutines between rl.mu.Lock() and rl.mu.Unlock()
InMap ==
    {g \in Goroutines : cpc[g] \in {"read", "write"}}
        \cup (IF spc = "sweep" THEN {"cleanup"} ELSE {})

MuFree_NoExclusion == TRUE

\* rl.mu.Lock() returns when nobody holds the mutex
MuFree == mu = ""

\* the window of the fixed-window limiter that the calls define, with the
\* numbers of calls and of allowed calls in it
CountFixed(win, loc, cfg) ==
    IF win.calls = 0 \/ Sub(loc.at, win.start) > cfg.Window
    THEN [start |-> loc.at, calls |-> 1, allowed |-> IF loc.ok THEN 1 ELSE 0]
    ELSE [start |-> win.start, calls |-> win.calls + 1,
          allowed |-> win.allowed + (IF loc.ok THEN 1 ELSE 0)]

\* the window that starts at the first call of the key, with the numbers of
\* calls and of allowed calls made inside it
CountSliding(win, loc, cfg) ==
    IF win.calls = 0
    THEN [start |-> loc.at, calls |-> 1, allowed |-> IF loc.ok THEN 1 ELSE 0]
    ELSE IF Sub(loc.at, win.start) <= cfg.Window
    THEN [start |-> win.start, calls |-> win.calls + 1,
          allowed |-> win.allowed + (IF loc.ok THEN 1 ELSE 0)]
    ELSE win

\* a goroutine calls Allow(key): rl.mu.Lock() is pending
CallAllow(g) ==
    /\ cpc[g] = "idle"
    /\ cstarted < MaxCalls
    /\ cstarted' = cstarted + 1
    /\ cpc' = [cpc EXCEPT ![g] = "lock"]
    /\ UNCHANGED <<cunder, cloc, mu, spc, cwin>>
    /\ UNCHANGED <<baseVars, tsVars, signVars, ipVars, lockVars, notConc>>

\* rl.mu.Lock() returns in Allow
AllowLock(g) ==
    /\ cpc[g] = "lock"
    /\ MuFree
    /\ mu' = g
    /\ cpc' = [cpc EXCEPT ![g] = "read"]
    /\ UNCHANGED <<cunder, cloc, spc, cwin, cstarted>>
    /\ UNCHANGED <<baseVars, tsVars, signVars, ipVars, lockVars, notConc>>

\* jwt.go:291-304: RateLimiter.Allow reads the clock and the entry of the key
\* and decides
FixedAllowRead(g) ==
    /\ cunder = "fixed"
    /\ cpc[g] = "read"
    /\ LET r == RateLimiterAllow(entries, ConcKey, now, rlConfig) IN
          cloc' = [cloc EXCEPT ![g] = [ok |-> r.ok, at |-> now,
                                       entry |-> r.entries[ConcKey],
                                       times |-> <<>>]]
    /\ cpc' = [cpc EXCEPT ![g] = "write"]
    /\ UNCHANGED <<cunder, mu, spc, cwin, cstarted>>
    /\ UNCHANGED <<baseVars, tsVars, signVars, ipVars, lockVars, notConc>>

\* jwt.go:295-307: RateLimiter.Allow stores the entry when it allows the
\* request, returns, and the deferred Unlock runs
FixedAllowWrite(g) ==
    /\ cunder = "fixed"
    /\ cpc[g] = "write"
    /\ entries' = IF cloc[g].ok
                  THEN [entries EXCEPT ![ConcKey] = cloc[g].entry]
                  ELSE entries
    /\ cwin' = CountFixed(cwin, cloc[g], rlConfig)
    /\ mu' = ""
    /\ cpc' = [cpc EXCEPT ![g] = "idle"]
    /\ cloc' = [cloc EXCEPT ![g] = NoLocal]
    /\ UNCHANGED <<cunder, spc, cstarted>>
    /\ UNCHANGED <<now, rlConfig, requests, fwWin, fwLast, swLog>>
    /\ UNCHANGED <<nonceVars, goVars, auditVars, pipeVars>>
    /\ UNCHANGED <<tsVars, signVars, ipVars, lockVars, notConc>>

\* jwt.go:439-453: SlidingWindowRateLimiter.Allow reads the clock and the
\* list of the key, filters it and decides
SlidingAllowRead(g) ==
    /\ cunder = "sliding"
    /\ cpc[g] = "read"
    /\ LET r == SlidingAllow(requests, ConcKey, now, rlConfig) IN
          cloc' = [cloc EXCEPT ![g] = [ok |-> r.ok, at |-> now,
                                       entry |-> NoEntry,
                                       times |-> r.requests[ConcKey]]]
    /\ cpc' = [cpc EXCEPT ![g] = "write"]
    /\ UNCHANGED <<cunder, mu, spc, cwin, cstarted>>
    /\ UNCHANGED <<baseVars, tsVars, signVars, ipVars, lockVars, notConc>>

\* jwt.go:450-457: SlidingWindowRateLimiter.Allow stores the list, returns,
\* and the deferred Unlock runs
SlidingAllowWrite(g) ==
    /\ cunder = "sliding"
    /\ cpc[g] = "write"
    /\ requests' = [requests EXCEPT ![ConcKey] = cloc[g].times]
    /\ cwin' = CountSliding(cwin, cloc[g], rlConfig)
    /\ mu' = ""
    /\ cpc' = [cpc EXCEPT ![g] = "idle"]
    /\ cloc' = [cloc EXCEPT ![g] = NoLocal]
    /\ UNCHANGED <<cunder, spc, cstarted>>
    /\ UNCHANGED <<now, rlConfig, entries, fwWin, fwLast, swLog>>
    /\ UNCHANGED <<nonceVars, goVars, auditVars, pipeVars>>
    /\ UNCHANGED <<tsVars, signVars, ipVars, lockVars, notConc>>

\* the ticker of the cleanup goroutine fires: rl.mu.Lock() is pending
SweepTick ==
    /\ spc = "wait"
    /\ spc' = "lock"
    /\ UNCHANGED <<cunder, cpc, cloc, mu, cwin, cstarted>>
    /\ UNCHANGED <<baseVars, tsVars, signVars, ipVars, lockVars, notConc>>

\* rl.mu.Lock() returns in cleanup
SweepLock ==
    /\ spc = "lock"
    /\ MuFree
    /\ mu' = "cleanup"
    /\ spc' = "sweep"
    /\ UNCHANGED <<cunder, cpc, cloc, cwin, cstarted>>
    /\ UNCHANGED <<baseVars, tsVars, signVars, ipVars, lockVars, notConc>>

\* jwt.go:276-282: RateLimiter.cleanup sweeps the map and unlocks
FixedSweep ==
    /\ cunder = "fixed"
    /\ spc = "sweep"
    /\ entries' = RateLimiterCleanup(entries, now, rlConfig)
    /\ mu' = ""
    /\ spc' = "wait"
    /\ UNCHANGED <<cunder, cpc, cloc, cwin, cstarted>>
    /\ UNCHANGED <<now, rlConfig, requests, fwWin, fwLast, swLog>>
    /\ UNCHANGED <<nonceVars, goVars, auditVars, pipeVars>>
    /\ UNCHANGED <<tsVars, signVars, ipVars, lockVars, notConc>>

\* jwt.go:416-430: SlidingWindowRateLimiter.cleanup sweeps the map and unlocks
SlidingSweep ==
    /\ cunder = "sliding"
    /\ spc = "sweep"
    /\ requests' = SlidingCleanup(requests, now, rlConfig)
    /\ mu' = ""
    /\ spc' = "wait"
    /\ UNCHANGED <<cunder, cpc, cloc, cwin, cstarted>>
    /\ UNCHANGED <<now, rlConfig, entries, fwWin, fwLast, swLog>>
    /\ UNCHANGED <<nonceVars, goVars, auditVars, pipeVars>>
    /\ UNCHANGED <<tsVars, signVars, ipVars, lockVars, notConc>>

\* ------------------------------------------------------ role checks
\* the roles a token can carry; "" is a token issued with an empty role
Roles == {"user", "admin", ""}

\* what c.Get finds under the key the guard reads
Annotations == [exists : {TRUE}, role : Roles] \cup {[exists |-> FALSE, role |-> ""]}

RequireRoleUser_AbsentPasses(ann, roles) ==
    IF ~ann.exists THEN [abort |-> FALSE, status |-> 0]
    ELSE IF ann.role \in roles THEN [abort |-> FALSE, status |-> 0]
    ELSE [abort |-> TRUE, status |-> 403]

\* middleware.RequireRole(roles...): 403 and Abort when "role" is not set,
\* c.Next() when the role is one of roles, else 403 and Abort
RequireRoleUser(ann, roles) ==
    IF ~ann.exists THEN [abort |-> TRUE, status |-> 403]
    ELSE IF ann.role \in roles THEN [abort |-> FALSE, status |-> 0]
    ELSE [abort |-> TRUE, status |-> 403]

\* admin RequireRole(roles...): 401 and Abort when "admin_claims" is not
\* set, 403 and Abort when the role of the claims is none of roles, else
\* c.Next()
RequireRoleAdmin(ann, roles) ==
    IF ~ann.exists THEN [abort |-> TRUE, status |-> 401]
    ELSE IF ann.role \notin roles THEN [abort |-> TRUE, status |-> 403]
    ELSE [abort |-> FALSE, status |-> 0]

RoleGuards == {"middleware", "admin"}
NoRoleRequest == [guard |-> "", ann |-> [exists |-> FALSE, role |-> ""], roles |-> {}]
NoRoleOutcome == [status |-> 0, aborted |-> FALSE, nextRan |-> FALSE]

\* a request reaches a RequireRole guard built with the list roles
RoleArrive(guard, ann, roles) ==
    /\ rphase = "idle"
    /\ rreq' = [guard |-> guard, ann |-> ann, roles |-> roles]
    /\ rphase' = "guard"
    /\ rout' = NoRoleOutcome
    /\ UNCHANGED <<baseVars, tsVars, signVars, ipVars, lockVars, notRole>>

\* the guard runs up to its c.Next() or its return
RoleGuard ==
    /\ rphase = "guard"
    /\ LET o == IF rreq.guard = "admin"
                THEN RequireRoleAdmin(rreq.ann, rreq.roles)
                ELSE RequireRoleUser(rreq.ann, rreq.roles) IN
        /\ rout' = [status |-> o.status, aborted |-> o.abort, nextRan |-> FALSE]
        /\ rphase' = IF o.abort THEN "done" ELSE "next"
    /\ UNCHANGED rreq
    /\ UNCHANGED <<baseVars, tsVars, signVars, ipVars, lockVars, notRole>>

\* c.Next(): the stage behind the guard serves the request
RoleNext ==
    /\ rphase = "next"
    /\ rout' = [status |-> 200, aborted |-> FALSE, nextRan |-> TRUE]
    /\ rphase' = "done"
    /\ UNCHANGED rreq
    /\ UNCHANGED <<baseVars, tsVars, signVars, ipVars, lockVars, notRole>>

\* ------------------------------------------------------------ tokens
\* in this study the clock counts ticks of 1/TicksPerSecond second
TicksPerSecond == 2

UserIDs == {"u1", "u2"}
Usernames == {"alice"}
SecretKey == "K"
OtherKey == "K2"

\* JWTConfig: TokenExpiry in ticks, SecretKey
JWTConfigs == [TokenExpiry : 0..MaxTTL, SecretKey : {SecretKey}]

\* time.Time.Truncate(jwt.TimePrecision), the precision being one second
Truncate(t) == t - (t % TicksPerSecond)

NewNumericDate_Exact(t) == t

\* jwt.NewNumericDate
NewNumericDate(t) == Truncate(t)

NoClaims == [UserID |-> "", Username |-> "", Role |-> ""]
NoToken == [alg |-> "", claims |-> NoClaims, ExpiresAt |-> 0, IssuedAt |-> 0,
            NotBefore |-> 0, signedWith |-> ""]

\* GenerateToken at time t: the HS256 token of the claims, signed with the
\* secret of the configuration
GenerateToken(userID, username, role, config, t) ==
    [alg |-> "HS256",
     claims |-> [UserID |-> userID, Username |-> username, Role |-> role],
     ExpiresAt |-> NewNumericDate(t + config.TokenExpiry),
     IssuedAt |-> NewNumericDate(t),
     NotBefore |-> NewNumericDate(t),
     signedWith |-> config.SecretKey]

\* ParseToken at time t: the key function refuses a method that is not HMAC,
\* jwt.ParseWithClaims verifies the signature, then exp (valid while t is
\* before it) and nbf
ParseToken(token, secretKey, t) ==
    IF token.alg # "HS256"
    THEN [ok |-> FALSE, err |-> "method", claims |-> NoClaims]
    ELSE IF token.signedWith # secretKey
    THEN [ok |-> FALSE, err |-> "signature", claims |-> NoClaims]
    ELSE IF ~(t < token.ExpiresAt)
    THEN [ok |-> FALSE, err |-> "expired", claims |-> NoClaims]
    ELSE IF t < token.NotBefore
    THEN [ok |-> FALSE, err |-> "not valid yet", claims |-> NoClaims]
    ELSE [ok |-> TRUE, err |-> "", claims |-> token.claims]

\* the Authorization headers a request can carry, given the issued token:
\* none, one without the Bearer prefix, the token, the token signed with
\* another key, the token with alg none
AuthHeaders(token) ==
    {[kind |-> "none", token |-> NoToken],
     [kind |-> "malformed", token |-> token],
     [kind |-> "bearer", token |-> token],
     [kind |-> "bearer", token |-> [token EXCEPT !.signedWith = OtherKey]],
     [kind |-> "bearer", token |-> [token EXCEPT !.alg = "none"]]}

NoIdentity == [exists |-> FALSE, claims |-> NoClaims]

\* JWTAuthWithConfig on a request with the header at time t: 401 and Abort
\* for a missing header, a header that is not "Bearer <token>" and a token
\* ParseToken refuses; else the annotations and c.Next()
JWTAuthWithConfig(header, config, t) ==
    IF header.kind = "none" \/ header.kind = "malformed"
    THEN [status |-> 401, aborted |-> TRUE, ann |-> NoIdentity, parsed |-> FALSE]
    ELSE LET r == ParseToken(header.token, config.SecretKey, t) IN
         IF ~r.ok
         THEN [status |-> 401, aborted |-> TRUE, ann |-> NoIdentity,
               parsed |-> FALSE]
         ELSE [status |-> 0, aborted |-> FALSE,
               ann |-> [exists |-> TRUE, claims |-> r.claims], parsed |-> TRUE]

NoIssue == [at |-> 0, ttl |-> 0, claims |-> NoClaims]
NoParse == [done |-> FALSE, at |-> 0, ok |-> FALSE, err |-> "", claims |-> NoClaims]
NoGuard == [done |-> FALSE, status |-> 0, aborted |-> FALSE, ann |-> NoIdentity,
            parsed |-> FALSE]

\* a token is issued
IssueToken(userID, username, role, config) ==
    /\ tphase = "idle"
    /\ tok' = GenerateToken(userID, username, role, config, now)
    /\ tissue' = [at |-> now, ttl |-> config.TokenExpiry,
                  claims |-> [UserID |-> userID, Username |-> username,
                              Role |-> role]]
    /\ tphase' = "issued"
    /\ UNCHANGED <<tres, tguard>>
    /\ UNCHANGED <<baseVars, tsVars, signVars, ipVars, lockVars, notTok>>

\* the issued token is parsed with the secret it was issued with
ParseIssued ==
    /\ tphase = "issued"
    /\ LET r == ParseToken(tok, SecretKey, now) IN
          tres' = [done |-> TRUE, at |-> now, ok |-> r.ok, err |-> r.err,
                   claims |-> r.claims]
    /\ UNCHANGED <<tok, tissue, tphase, tguard>>
    /\ UNCHANGED <<baseVars, tsVars, signVars, ipVars, lockVars, notTok>>

\* a request with an Authorization header reaches the JWT guard
GuardRequest(header) ==
    /\ tphase = "issued"
    /\ LET o == JWTAuthWithConfig(header, [TokenExpiry |-> tissue.ttl,
                                           SecretKey |-> SecretKey], now) IN
          tguard' = [done |-> TRUE, status |-> o.status, aborted |-> o.aborted,
                     ann |-> o.ann, parsed |-> o.parsed]
    /\ UNCHANGED <<tok, tissue, tphase, tres>>
    /\ UNCHANGED <<baseVars, tsVars, signVars, ipVars, lockVars, notTok>>

\* ------------------------------------------------- cleanup goroutines
\* the ticker of a cleanup goroutine fires and the range loop takes the tick
SweeperFire(l) ==
    /\ ~pexit
    /\ swpc[l] = "wait"
    /\ swpc' = [swpc EXCEPT ![l] = "sweep"]
    /\ UNCHANGED pexit
    /\ UNCHANGED <<baseVars, tsVars, signVars, ipVars, lockVars, notSweep>>

\* jwt.go:275-282: RateLimiter.cleanup sweeps the map and waits for the
\* next tick
FixedSweeperRun ==
    /\ ~pexit
    /\ swpc["fixed"] = "sweep"
    /\ entries' = RateLimiterCleanup(entries, now, rlConfig)
    /\ swpc' = [swpc EXCEPT !["fixed"] = "wait"]
    /\ UNCHANGED pexit
    /\ UNCHANGED <<now, rlConfig, requests, fwWin, fwLast, swLog>>
    /\ UNCHANGED <<nonceVars, goVars, auditVars, pipeVars>>
    /\ UNCHANGED <<tsVars, signVars, ipVars, lockVars, notSweep>>

\* jwt.go:415-430: SlidingWindowRateLimiter.cleanup sweeps the map and waits
\* for the next tick
SlidingSweeperRun ==
    /\ ~pexit
    /\ swpc["sliding"] = "sweep"
    /\ requests' = SlidingCleanup(requests, now, rlConfig)
    /\ swpc' = [swpc EXCEPT !["sliding"] = "wait"]
    /\ UNCHANGED pexit
    /\ UNCHANGED <<now, rlConfig, entries, fwWin, fwLast, swLog>>
    /\ UNCHANGED <<nonceVars, goVars, auditVars, pipeVars>>
    /\ UNCHANGED <<tsVars, signVars, ipVars, lockVars, notSweep>>

\* main.go:122-127: the signal goroutine calls os.Exit(0); the process and
\* every goroutine of it end
ProcessExit ==
    /\ ~pexit
    /\ pexit' = TRUE
    /\ swpc' = [l \in Limiters |-> "stopped"]
    /\ UNCHANGED <<baseVars, tsVars, signVars, ipVars, lockVars, notSweep>>

\* SecurityMiddleware.Close has returned: it is sm.auditLogger.Close()
SecurityMiddlewareClosed == closePc = "closed"

\* --------------------------------------------------------- redaction
\* decoded JSON: strings, objects (maps from keys to values) and arrays
JKeys == {"password", "name"}
JStrings == {[t |-> "str", v |-> "x"]}
ObjectsOver(S) ==
    UNION {{[t |-> "obj", m |-> f] : f \in [D -> S]} : D \in SUBSET JKeys}
ArraysOver(S) ==
    {[t |-> "arr", a |-> <<>>]} \cup {[t |-> "arr", a |-> <<e>>] : e \in S}
JFlat == JStrings \cup ObjectsOver(JStrings) \cup ArraysOver(JStrings)
JNested == JStrings \cup ObjectsOver(JFlat) \cup ArraysOver(JFlat)

\* the bodies that decode as JSON: objects and arrays
JSONBodies == ObjectsOver(JNested) \cup ArraysOver(JFlat)

Masked == [t |-> "str", v |-> "***MASKED***"]

\* a body text: kind "json" is the encoding of val, kind "text" is the
\* first MaxRequestBodySize bytes of it followed by "...(truncated)"
NoBody == [kind |-> "", val |-> [t |-> "str", v |-> ""]]

\* maskMapField: the map after the call
RECURSIVE maskMapField(_, _)
maskMapField(data, field) ==
    [key \in DOMAIN data |->
        IF key = field THEN Masked
        ELSE IF data[key].t = "obj"
        THEN [t |-> "obj", m |-> maskMapField(data[key].m, field)]
        ELSE data[key]]

\* maskJSONField: json.Unmarshal into a map fails for a text that is not
\* the encoding of an object, and the text is returned as it is
maskJSONField(data, field) ==
    IF data.kind # "json" \/ data.val.t # "obj" THEN data
    ELSE [kind |-> "json",
          val |-> [t |-> "obj", m |-> maskMapField(data.val.m, field)]]

\* maskSensitiveData: maskJSONField for every field in turn
RECURSIVE maskSensitiveData(_, _)
maskSensitiveData(data, sensitiveFields) ==
    IF sensitiveFields = <<>> THEN data
    ELSE maskSensitiveData(maskJSONField(data, Head(sensitiveFields)),
                           Tail(sensitiveFields))

\* part_001:262-266: the body text, cut when it is longer than
\* MaxRequestBodySize
BodyText(body) ==
    IF body.over THEN [kind |-> "text", val |-> body.val]
    ELSE [kind |-> "json", val |-> body.val]

\* part_001:259-272: the audit stage reads the request body and masks it
LogBody ==
    /\ mphase = "body"
    /\ mlogged' = maskSensitiveData(BodyText(mbody), mfields)
    /\ mphase' = "logged"
    /\ UNCHANGED <<mbody, mfields>>
    /\ UNCHANGED <<baseVars, tsVars, signVars, ipVars, lockVars, notMask>>

\* ------------------------------------------------------- audit stage
\* the URL paths of the requests at the audit stage
AuditPaths == {"/health", "/health/", "/api/v1/users"}

NoAuditRequest == [path |-> "", requestID |-> "", body |-> ""]
NoAuditEffect == [request_id |-> "", bodyRead |-> FALSE, wrapped |-> FALSE,
                  nextRan |-> FALSE]

Excluded_Never(path, paths) == FALSE

\* part_001:244-249: the path equals one of ExcludePaths
Excluded(path, paths) == path \in paths

\* the records that were handed to AuditLogger.Log
Handed == accepted \cup refused

\* a request reaches AuditWithLogger
AuditArrive(req) ==
    /\ aphase \in {"idle", "done"}
    /\ areq' = req
    /\ aset' = NoAuditEffect
    /\ asnap' = Handed
    /\ aphase' = "audit"
    /\ UNCHANGED aconf
    /\ UNCHANGED <<baseVars, tsVars, signVars, ipVars, lockVars, notExcl>>

\* part_001:238-283: AuditWithLogger up to its c.Next(); a disabled logger
\* and an excluded path go to c.Next() at once, else the stage sets
\* request_id, reads the body when it logs bodies, and wraps the writer
AuditBefore ==
    /\ aphase = "audit"
    /\ aset' = IF ~auditConfig.Enabled \/ Excluded(areq.path, aconf.ExcludePaths)
               THEN aset
               ELSE [request_id |-> IF areq.requestID = "" THEN "generated"
                                    ELSE areq.requestID,
                     bodyRead |-> aconf.LogRequestBody,
                     wrapped |-> TRUE,
                     nextRan |-> FALSE]
    /\ aphase' = "next"
    /\ UNCHANGED <<aconf, areq, asnap>>
    /\ UNCHANGED <<baseVars, tsVars, signVars, ipVars, lockVars, notExcl>>

\* c.Next(): the stages behind the audit stage serve the request
AuditNext ==
    /\ aphase = "next"
    /\ aset' = [aset EXCEPT !.nextRan = TRUE]
    /\ aphase' = "after"
    /\ UNCHANGED <<aconf, areq, asnap>>
    /\ UNCHANGED <<baseVars, tsVars, signVars, ipVars, lockVars, notExcl>>

\* part_001:241 and 247: the stage returns after c.Next() for a disabled
\* logger or an excluded path
AuditSkipReturn ==
    /\ aphase = "after"
    /\ ~aset.wrapped
    /\ aphase' = "done"
    /\ UNCHANGED <<aconf, areq, aset, asnap>>
    /\ UNCHANGED <<baseVars, tsVars, signVars, ipVars, lockVars, notExcl>>

\* part_001:298-338: the stage builds the record and hands it to logger.Log
AuditRecord ==
    /\ aphase = "after"
    /\ aset.wrapped
    /\ nextRec <= MaxRecords
    /\ LogEffect(nextRec)
    /\ nextRec' = nextRec + 1
    /\ aphase' = "done"
    /\ UNCHANGED <<aconf, areq, aset, asnap>>
    /\ UNCHANGED <<auditConfig, chanClosed, fileClosed, writerPc, writerItem,
                   closePc, atClose>>
    /\ UNCHANGED <<now, rlVars, nonceVars, goVars, pipeVars>>
    /\ UNCHANGED <<tsVars, signVars, ipVars, lockVars, notExcl>>

\* --------------------------------------------------------- handler chain
\* the routes of RegisterRoutes, one per middleware group, and /health
Routes == {"/health", "/api/v1/public/login", "/api/v1/users",
           "/api/v1/admin/users", "/api/v1/signed/webhook"}

\* AuditConfig.ExcludePaths of main.go (the paths that are routes)
ExcludePaths == {"/health"}

\* the Authorization header: absent, without the Bearer prefix, a token that
\* ParseToken refuses, or a valid token of a user or of an admin
Tokens == {"none", "malformed", "invalid", "user", "admin"}

Chain_RateLimitFirst(route) ==
    <<"RateLimit", "IPFilter", "Audit", "SecurityAudit", "Logger">>
    \o (CASE route = "/api/v1/users" -> <<"JWTAuth">>
          [] route = "/api/v1/admin/users" -> <<"JWTAuth", "RequireRole">>
          [] route = "/api/v1/signed/webhook" -> <<"APISignature">>
          [] OTHER -> <<>>)
    \o <<"Handler">>

\* the handlers gin runs for a route, from the IP filter on: the r.Use calls
\* of main.go:58-89, the group middleware of RegisterRoutes, the handler.
\* (gin.Recovery, RequestID, SecureHeaders and Cors run before the IP filter;
\* they touch none of the state below.)
Chain(route) ==
    <<"IPFilter", "RateLimit", "Audit", "SecurityAudit", "Logger">>
    \o (CASE route = "/api/v1/users" -> <<"JWTAuth">>
          [] route = "/api/v1/admin/users" -> <<"JWTAuth", "RequireRole">>
          [] route = "/api/v1/signed/webhook" -> <<"APISignature">>
          [] OTHER -> <<>>)
    \o <<"Handler">>

\* the requests: client address, route, Authorization header and signature
\* parameters; a route that does not read a credential gets one value of it
Requests(t) ==
    [ip : Keys, route : {"/health", "/api/v1/public/login"},
     token : {"none"}, sig : {NoSigRequest}]
    \cup [ip : Keys, route : {"/api/v1/users", "/api/v1/admin/users"},
          token : Tokens, sig : {NoSigRequest}]
    \cup [ip : Keys, route : {"/api/v1/signed/webhook"}, token : {"none"},
          sig : {r \in SigRequests({t}) : r.nonce # "n2"}]

NoRequest == [ip |-> "", route |-> "", token |-> "none", sig |-> NoSigRequest]

\* gin: the handler c.Next() runs next, "" when the chain is over or aborted
Current ==
    IF phase = "running" /\ ~aborted /\ idx <= Len(Chain(inflight.route))
    THEN Chain(inflight.route)[idx] ELSE ""

JWTOutcome_NoAbort(token) ==
    IF token \in {"none", "malformed", "invalid"}
    THEN [abort |-> FALSE, status |-> 401, role |-> ""]
    ELSE [abort |-> FALSE, status |-> 0, role |-> token]

\* JWTAuthWithConfig: 401 and Abort for a missing, malformed or refused
\* token, else the role annotation
JWTOutcome(token) ==
    IF token \in {"none", "malformed", "invalid"}
    THEN [abort |-> TRUE, status |-> 401, role |-> ""]
    ELSE [abort |-> FALSE, status |-> 0, role |-> token]

\* RequireRole(roles...): 403 and Abort when the annotation is absent or the
\* role is not listed
RoleOutcome(role, roles) ==
    IF role = "" \/ role \notin roles
    THEN [abort |-> TRUE, status |-> 403]
    ELSE [abort |-> FALSE, status |-> 0]

AuditDue_BeforeNext == phase = "running" /\ auditOpen

\* the audit middleware's c.Next() has returned: the rest of the chain ran
\* or was aborted
AuditDue == phase = "running" /\ auditOpen /\ Current = ""

\* shared state a request stage may change
Shared == <<entries, nonceStore, cleanups, logChan, file>>

\* what every stage does besides its own work: move on or stay aborted,
\* record the stage, note the guard that wrote a rejection response, and
\* note whether the stage changed shared state
StageDone(name, abort, code) ==
    /\ trace' = Append(trace, name)
    /\ aborted' = abort
    /\ idx' = IF abort THEN idx ELSE idx + 1
    /\ status' = IF code # 0 THEN code ELSE status
    /\ rejectedBy' = IF code # 0 /\ name # "Handler" THEN name ELSE rejectedBy
    /\ mutated' = (mutated \/ Shared' # Shared)

\* net/http hands a request to the engine
NewRequest(r) ==
    /\ ~exited
    /\ phase \in {"idle", "finished"}
    /\ served < MaxServed
    /\ served' = served + 1
    /\ inflight' = r
    /\ phase' = "running"
    /\ idx' = 1
    /\ aborted' = FALSE
    /\ status' = 200
    /\ ctxRole' = ""
    /\ auditOpen' = FALSE
    /\ trace' = <<>>
    /\ rejectedBy' = ""
    /\ mutated' = FALSE
    /\ reqLogs' = <<>>
    /\ UNCHANGED <<ipFilter, exited, now, rlVars, nonceVars, goVars, extVars, auditVars>>

\* IPFilterWithConfig: BlockHandler (403, Abort) or c.Next()
IPFilterStage ==
    /\ ~exited /\ Current = "IPFilter"
    /\ UNCHANGED <<now, rlVars, nonceVars, goVars, extVars, auditVars>>
    /\ IF IsAllowed(ipFilter, inflight.ip)
       THEN StageDone("IPFilter", FALSE, 0)
       ELSE StageDone("IPFilter", TRUE, 403)
    /\ UNCHANGED <<ipFilter, inflight, phase, ctxRole, auditOpen, served,
                   exited, reqLogs>>

\* RateLimitWithConfig: LimitHandler (429, Abort) or c.Next()
RateLimitStage ==
    /\ ~exited /\ Current = "RateLimit"
    /\ LET r == RateLimiterAllow(entries, inflight.ip, now, rlConfig) IN
        /\ entries' = r.entries
        /\ UNCHANGED <<now, rlConfig, requests, fwWin, fwLast, swLog,
                       nonceVars, goVars, extVars, auditVars>>
        /\ IF r.ok THEN StageDone("RateLimit", FALSE, 0)
                   ELSE StageDone("RateLimit", TRUE, 429)
    /\ UNCHANGED <<ipFilter, inflight, phase, ctxRole, auditOpen, served,
                   exited, reqLogs>>

\* AuditWithLogger up to its c.Next(): a disabled logger or an excluded path
\* passes the request on, any other request is wrapped
AuditStage ==
    /\ ~exited /\ Current = "Audit"
    /\ UNCHANGED <<now, rlVars, nonceVars, goVars, extVars, auditVars>>
    /\ auditOpen' = (auditConfig.Enabled /\ inflight.route \notin ExcludePaths)
    /\ StageDone("Audit", FALSE, 0)
    /\ UNCHANGED <<ipFilter, inflight, phase, ctxRole, served, exited, reqLogs>>

\* SecurityAudit: logs suspicious requests, then c.Next()
SecurityAuditStage ==
    /\ ~exited /\ Current = "SecurityAudit"
    /\ UNCHANGED <<now, rlVars, nonceVars, goVars, extVars, auditVars>>
    /\ StageDone("SecurityAudit", FALSE, 0)
    /\ UNCHANGED <<ipFilter, inflight, phase, ctxRole, auditOpen, served,
                   exited, reqLogs>>

\* Logger up to its c.Next()
LoggerStage ==
    /\ ~exited /\ Current = "Logger"
    /\ UNCHANGED <<now, rlVars, nonceVars, goVars, extVars, auditVars>>
    /\ StageDone("Logger", FALSE, 0)
    /\ UNCHANGED <<ipFilter, inflight, phase, ctxRole, auditOpen, served,
                   exited, reqLogs>>

\* JWTAuth
JWTStage ==
    /\ ~exited /\ Current = "JWTAuth"
    /\ UNCHANGED <<now, rlVars, nonceVars, goVars, extVars, auditVars>>
    /\ LET o == JWTOutcome(inflight.token) IN
        /\ ctxRole' = o.role
        /\ StageDone("JWTAuth", o.abort, o.status)
    /\ UNCHANGED <<ipFilter, inflight, phase, auditOpen, served, exited, reqLogs>>

\* RequireRole("admin")
RoleStage ==
    /\ ~exited /\ Current = "RequireRole"
    /\ UNCHANGED <<now, rlVars, nonceVars, goVars, extVars, auditVars>>
    /\ LET o == RoleOutcome(ctxRole, {"admin"}) IN
        StageDone("RequireRole", o.abort, o.status)
    /\ UNCHANGED <<ipFilter, inflight, phase, ctxRole, auditOpen, served,
                   exited, reqLogs>>

\* APISignature
SignatureStage ==
    /\ ~exited /\ Current = "APISignature"
    /\ LET r == SigValidate(nonceStore, inflight.sig, now, sigConfig) IN
        /\ nonceStore' = r.store
        /\ cleanups' = IF r.spawned THEN cleanups + 1 ELSE cleanups
        /\ UNCHANGED <<now, rlVars, sigConfig, passLog, sigLast, goVars, extVars,
                       auditVars>>
        /\ StageDone("APISignature", r.result # "pass", SigStatus(r.result))
    /\ UNCHANGED <<ipFilter, inflight, phase, ctxRole, auditOpen, served,
                   exited, reqLogs>>

\* the route's handler writes its response
HandlerStage ==
    /\ ~exited /\ Current = "Handler"
    /\ UNCHANGED <<now, rlVars, nonceVars, goVars, extVars, auditVars>>
    /\ \E code \in {200, 404} : StageDone("Handler", FALSE, code)
    /\ UNCHANGED <<ipFilter, inflight, phase, ctxRole, auditOpen, served,
                   exited, reqLogs>>

\* AuditWithLogger after its c.Next(): the record takes c.Writer.Status()
\* and goes to logger.Log
AuditAfter ==
    /\ ~exited /\ AuditDue
    /\ nextRec <= MaxRecords
    /\ LogEffect(nextRec)
    /\ nextRec' = nextRec + 1
    /\ auditOpen' = FALSE
    /\ reqLogs' = Append(reqLogs, [rec |-> nextRec, status |-> status,
                                   after |-> Len(trace)])
    /\ mutated' = (mutated \/ Shared' # Shared)
    /\ UNCHANGED <<auditConfig, chanClosed, fileClosed, writerPc, writerItem,
                   closePc, atClose>>
    /\ UNCHANGED <<now, rlVars, nonceVars, goVars, extVars>>
    /\ UNCHANGED <<ipFilter, inflight, phase, idx, aborted, status, ctxRole,
                   served, exited, trace, rejectedBy>>

\* the chain has returned to the engine
RequestDone ==
    /\ ~exited
    /\ phase = "running" /\ Current = "" /\ ~auditOpen
    /\ phase' = "finished"
    /\ UNCHANGED <<ipFilter, inflight, idx, aborted, status, ctxRole,
                   auditOpen, served, exited, trace, rejectedBy, mutated,
                   reqLogs>>
    /\ UNCHANGED <<now, rlVars, nonceVars, goVars, extVars, auditVars>>

\* main.go:122-127: on SIGINT/SIGTERM the signal goroutine closes the
\* databases and calls os.Exit(0)
Shutdown ==
    /\ ~exited
    /\ exited' = TRUE
    /\ UNCHANGED <<ipFilter, inflight, phase, idx, aborted, status, ctxRole,
                   auditOpen, served, trace, rejectedBy, mutated, reqLogs>>
    /\ UNCHANGED <<now, rlVars, nonceVars, goVars, extVars, auditVars>>

\* the goroutines of the running process
ServerTick == ~exited /\ ConcTick
ServerWriterRecv == ~exited /\ WriterRecv
ServerWriterWrite == ~exited /\ WriterWrite
ServerFWCleanup == ~exited /\ FWCleanup
ServerNonceCleanup == ~exited /\ NonceCleanup

\* --------------------------------------------------------- specifications
NoCall == [key |-> "", idx |-> 0, ok |-> FALSE, at |-> 0, entry |-> NoEntry,
           prevIdx |-> 0]

\* the configurations a limiter is constructed with (time.NewTicker panics
\* on a non-positive Window, so Window >= 1)
RateLimitConfigs == [Window : 1..MaxWindow, MaxRequests : 0..MaxN]

\* the configurations of the signature validator
SignatureConfigs == [Expiry : 1..MaxExpiry, TimeTolerance : 0..MaxTolerance]

InitFW ==
    /\ entries = NewRateLimiter
    /\ fwWin = [k \in Keys |-> [start |-> 0, idx |-> 0]]
    /\ fwLast = NoCall

InitSW ==
    /\ requests = NewSlidingWindowRateLimiter
    /\ swLog = [k \in Keys |-> <<>>]

InitNonce ==
    /\ nonceStore = EmptyNonceStore
    /\ cleanups = 0
    /\ passLog = [n \in Nonces |-> <<>>]
    /\ sigLast = NoValidation
    /\ gpc = [g \in Goroutines |-> "idle"]
    /\ greq = [g \in Goroutines |-> NoSigRequest]
    /\ gnow = [g \in Goroutines |-> 0]

\* NewAuditLogger: the file is open, the channel empty, asyncWriter started
\* when Async is set
InitAudit ==
    /\ logChan = <<>>
    /\ chanClosed = FALSE
    /\ file = <<>>
    /\ fileClosed = FALSE
    /\ writerPc = IF auditConfig.Async THEN "recv" ELSE "none"
    /\ writerItem = NoRecord
    /\ closePc = "open"
    /\ nextRec = 1
    /\ accepted = {}
    /\ refused = {}
    /\ atClose = {}
    /\ lastLog = NoLog

\* the configuration of the components a specification does not exercise
DefaultAudit == auditConfig = [Enabled |-> TRUE, Async |-> TRUE]
DefaultRL == rlConfig = [Window |-> 1, MaxRequests |-> 1]
DefaultSig == sigConfig = [Expiry |-> 1, TimeTolerance |-> 0]

\* no request is in the chain
InitPipe ==
    /\ inflight = NoRequest
    /\ phase = "idle"
    /\ idx = 1
    /\ aborted = FALSE
    /\ status = 200
    /\ ctxRole = ""
    /\ auditOpen = FALSE
    /\ served = 0
    /\ exited = FALSE
    /\ trace = <<>>
    /\ rejectedBy = ""
    /\ mutated = FALSE
    /\ reqLogs = <<>>

\* the IP filter of a deployment that blacklists 6.6.6.0/24
DefaultIP ==
    ipFilter = NewIPFilter([WhitelistMode |-> FALSE, AllowPrivate |-> TRUE,
                            Whitelist |-> {}, Blacklist |-> {"6.6.6.0/24"}])

NoTsCall == [req |-> NoSigRequest, at |-> 0, result |-> "", touched |-> FALSE]

\* the state of the components a specification does not exercise
IdleSign ==
    /\ signConfig = [ValidateBody |-> TRUE, Algorithm |-> "hmac-sha256",
                     SecretKey |-> <<"x">>]
    /\ cin = NoInput
    /\ cout = NoSignature
    /\ sreq = NoSignedRequest
    /\ first = NoVerdict
    /\ second = NoVerdict
    /\ sphase = "input"

\* a filter without rules
IdleIP ==
    /\ filt = NewIPFilter([WhitelistMode |-> FALSE, AllowPrivate |-> TRUE,
                           Whitelist |-> {}, Blacklist |-> {}])
    /\ ires = NoLookup

\* no goroutine is in a call of the filter
IdleLock ==
    /\ lpc = [g \in Goroutines |-> "idle"]
    /\ lop = [g \in Goroutines |-> NoOp]
    /\ lseen = [g \in Goroutines |-> FALSE]
    /\ lhist = NoResult

\* no goroutine is in a call of a limiter
IdleConc ==
    /\ cunder = "fixed"
    /\ cpc = [g \in Goroutines |-> "idle"]
    /\ cloc = [g \in Goroutines |-> NoLocal]
    /\ mu = ""
    /\ spc = "wait"
    /\ cwin = NoWindow
    /\ cstarted = 0

\* no request is at a RequireRole guard
IdleRole ==
    /\ rreq = NoRoleRequest
    /\ rphase = "idle"
    /\ rout = NoRoleOutcome

\* no token was issued
IdleTok ==
    /\ tok = NoToken
    /\ tissue = NoIssue
    /\ tres = NoParse
    /\ tguard = NoGuard
    /\ tphase = "idle"

\* NewRateLimiter and NewSlidingWindowRateLimiter have started the
\* cleanup goroutines
IdleSweep ==
    /\ swpc = [l \in Limiters |-> "wait"]
    /\ pexit = FALSE

\* no body is being logged
IdleMask ==
    /\ mbody = NoBody
    /\ mfields = <<>>
    /\ mlogged = NoBody
    /\ mphase = "idle"

\* no request is at the audit stage
IdleExcl ==
    /\ aconf = [ExcludePaths |-> {}, LogRequestBody |-> FALSE]
    /\ areq = NoAuditRequest
    /\ aset = NoAuditEffect
    /\ asnap = {}
    /\ aphase = "idle"

\* -------------------------------- both limiters behind the same requests
\* the calls the history tells apart
PairOps == {"allow", "sweepFixed", "sweepSliding"}

NoPairCall ==
    [op |-> "none", key |-> "", at |-> 0, okF |-> FALSE, okS |-> FALSE,
     shF |-> FALSE, shS |-> FALSE, entries |-> NewRateLimiter,
     requests |-> NewSlidingWindowRateLimiter, keys |-> {}]

\* the keys of SlidingWindowRateLimiter.requests after Allow(key): both
\* branches of Allow assign rl.requests[key]
SlidingAllowKeys(keys, key) == keys \cup {key}

\* the keys of SlidingWindowRateLimiter.requests after one sweep: a key
\* whose list has no timestamp of the last Window is deleted
SlidingCleanupKeys(keys, reqs, t, cfg) ==
    {k \in keys : FilterValid(reqs[k], t, cfg) # <<>>}

\* the requests made so far
RECURSIVE PairCallsOf(_, _)
PairCallsOf(log, keys) ==
    IF keys = {} THEN 0
    ELSE LET k == CHOOSE x \in keys : TRUE IN
         Len(log[k]) + PairCallsOf(log, keys \ {k})

PairCalls(log) == PairCallsOf(log, Keys)

\* one request for key goes through RateLimiter.Allow and through
\* SlidingWindowRateLimiter.Allow; the history runs the same request through
\* the maps that no sweep has touched
PairAllow(key) ==
    /\ PairCalls(plog) < MaxBurst
    /\ LET f == RateLimiterAllow(entries, key, now, rlConfig)
           s == SlidingAllow(requests, key, now, rlConfig)
           hf == RateLimiterAllow(shadowE, key, now, rlConfig)
           hs == SlidingAllow(shadowR, key, now, rlConfig) IN
        /\ entries' = f.entries
        /\ requests' = s.requests
        /\ swKeys' = SlidingAllowKeys(swKeys, key)
        /\ shadowE' = hf.entries
        /\ shadowR' = hs.requests
        /\ plog' = [plog EXCEPT ![key] =
                       Append(@, [at |-> now, okF |-> f.ok, okS |-> s.ok])]
        /\ plast' = [op |-> "allow", key |-> key, at |-> now,
                     okF |-> f.ok, okS |-> s.ok, shF |-> hf.ok, shS |-> hs.ok,
                     entries |-> entries, requests |-> requests,
                     keys |-> swKeys]
    /\ UNCHANGED <<now, rlConfig, fwWin, fwLast, swLog, nonceVars, goVars,
                   auditVars, pipeVars>>
    /\ UNCHANGED <<tsVars, signVars, ipVars, lockVars, notPair>>

\* RateLimiter.cleanup, one tick of its ticker
PairSweepFixed ==
    /\ entries' = RateLimiterCleanup(entries, now, rlConfig)
    /\ plast' = [NoPairCall EXCEPT !.op = "sweepFixed", !.at = now,
                     !.entries = entries, !.requests = requests,
                     !.keys = swKeys]
    /\ UNCHANGED <<now, rlConfig, requests, fwWin, fwLast, swLog, nonceVars,
                   goVars, auditVars, pipeVars>>
    /\ UNCHANGED <<swKeys, shadowE, shadowR, plog>>
    /\ UNCHANGED <<tsVars, signVars, ipVars, lockVars, notPair>>

\* SlidingWindowRateLimiter.cleanup, one tick of its ticker
PairSweepSliding ==
    /\ requests' = SlidingCleanup(requests, now, rlConfig)
    /\ swKeys' = SlidingCleanupKeys(swKeys, requests, now, rlConfig)
    /\ plast' = [NoPairCall EXCEPT !.op = "sweepSliding", !.at = now,
                     !.entries = entries, !.requests = requests,
                     !.keys = swKeys]
    /\ UNCHANGED <<now, rlConfig, entries, fwWin, fwLast, swLog, nonceVars,
                   goVars, auditVars, pipeVars>>
    /\ UNCHANGED <<shadowE, shadowR, plog>>
    /\ UNCHANGED <<tsVars, signVars, ipVars, lockVars, notPair>>

\* no request has reached the pair of limiters
IdlePair ==
    /\ swKeys = {}
    /\ shadowE = NewRateLimiter
    /\ shadowR = NewSlidingWindowRateLimiter
    /\ plog = [k \in Keys |-> <<>>]
    /\ plast = NoPairCall

\* ------------------------------------------------ the guards' rejections
\* the guards of the repository that can stop a request
GuardNames ==
    {"APISignature", "SimpleSignature", "JWTAuth", "RequireRole",
     "AdminJWTAuth", "AdminRequireRole", "IPFilter", "CountryFilter",
     "RateLimit", "SlidingWindowRateLimit", "APIKeyAuth"}

\* what a guard can find wrong with a request, in the order of its checks;
\* "" is a request it finds nothing wrong with
Findings(guard) ==
    CASE guard = "APISignature" ->
            {"missingParams", "badTimestamp", "expired", "duplicateNonce",
             "mismatch", ""}
      [] guard = "SimpleSignature" ->
            {"missingParams", "unknownAppKey", "badTimestamp", "expired",
             "mismatch", ""}
      [] guard \in {"JWTAuth", "AdminJWTAuth"} ->
            {"missingToken", "malformedToken", "invalidToken",
             "expiredToken", ""}
      [] guard = "RequireRole" -> {"roleAbsent", "roleDenied", ""}
      [] guard = "AdminRequireRole" -> {"claimsAbsent", "roleDenied", ""}
      [] guard = "IPFilter" -> {"blockedIP", ""}
      [] guard = "CountryFilter" -> {"countryNotAllowed", "countryBlocked", ""}
      [] guard \in {"RateLimit", "SlidingWindowRateLimit"} -> {"limited", ""}
      [] guard = "APIKeyAuth" -> {"missingKey", "invalidKey", ""}

GuardRequests ==
    UNION {[guard : {g}, finding : Findings(g)] : g \in GuardNames}

\* c.JSON(status, gin.H{"code": code, ...}) followed by c.Abort()
Reject(st, code) == [status |-> st, code |-> code, aborted |-> TRUE]

\* c.Next(): the guard writes nothing
NoResponse == [status |-> 0, code |-> 0, aborted |-> FALSE]

\* APISignatureWithConfig and SimpleSignature
SignatureResponse(guard, finding) ==
    CASE guard = "APISignature" /\ finding = "mismatch" -> Reject(401, 401)
      [] guard = "APISignature" -> Reject(400, 400)
      [] guard = "SimpleSignature"
            /\ finding \in {"unknownAppKey", "mismatch"} -> Reject(401, 401)
      [] guard = "SimpleSignature" -> Reject(400, 400)

\* JWTAuthWithConfig, RequireRole, and DefaultRateLimitConfig.LimitHandler
\* behind RateLimitWithConfig and SlidingWindowRateLimit
MiddlewareResponse(guard, finding) ==
    CASE guard = "JWTAuth" -> Reject(401, 401)
      [] guard = "RequireRole" -> Reject(403, 403)
      [] guard \in {"RateLimit", "SlidingWindowRateLimit"} -> Reject(429, 429)

\* the admin JWTAuth and RequireRole
AdminResponse(guard, finding) ==
    CASE guard = "AdminJWTAuth" -> Reject(401, 401)
      [] guard = "AdminRequireRole" /\ finding = "claimsAbsent" ->
            Reject(401, 401)
      [] guard = "AdminRequireRole" -> Reject(403, 403)

\* DefaultIPFilterConfig.BlockHandler behind IPFilterWithConfig, and
\* CountryFilterMiddleware
FilterResponse(guard, finding) == Reject(403, 403)

\* APIKeyAuth
APIKeyResponse(guard, finding) == Reject(401, 401)

GuardResponse_MismatchForbidden(guard, finding) ==
    CASE finding = "" -> NoResponse
      [] finding = "mismatch" -> Reject(403, 403)
      [] guard \in {"APISignature", "SimpleSignature"} ->
            SignatureResponse(guard, finding)
      [] guard \in {"JWTAuth", "RequireRole", "RateLimit",
                    "SlidingWindowRateLimit"} ->
            MiddlewareResponse(guard, finding)
      [] guard \in {"AdminJWTAuth", "AdminRequireRole"} ->
            AdminResponse(guard, finding)
      [] guard \in {"IPFilter", "CountryFilter"} ->
            FilterResponse(guard, finding)
      [] guard = "APIKeyAuth" -> APIKeyResponse(guard, finding)

\* the response of each guard to each finding, as its handler writes it
GuardResponse(guard, finding) ==
    CASE finding = "" -> NoResponse
      [] guard \in {"APISignature", "SimpleSignature"} ->
            SignatureResponse(guard, finding)
      [] guard \in {"JWTAuth", "RequireRole", "RateLimit",
                    "SlidingWindowRateLimit"} ->
            MiddlewareResponse(guard, finding)
      [] guard \in {"AdminJWTAuth", "AdminRequireRole"} ->
            AdminResponse(guard, finding)
      [] guard \in {"IPFilter", "CountryFilter"} ->
            FilterResponse(guard, finding)
      [] guard = "APIKeyAuth" -> APIKeyResponse(guard, finding)

NoGuardRequest == [guard |-> "", finding |-> ""]

\* a request reaches a guard
GuardArrive(req) ==
    /\ xphase \in {"idle", "aborted", "next"}
    /\ xreq' = req
    /\ xphase' = "at"
    /\ UNCHANGED xresp
    /\ UNCHANGED <<baseVars, tsVars, signVars, ipVars, lockVars, notGuard>>

\* the guard answers and aborts the chain
GuardReject ==
    /\ xphase = "at"
    /\ GuardResponse(xreq.guard, xreq.finding).aborted
    /\ xresp' = GuardResponse(xreq.guard, xreq.finding)
    /\ xphase' = "aborted"
    /\ UNCHANGED xreq
    /\ UNCHANGED <<baseVars, tsVars, signVars, ipVars, lockVars, notGuard>>

\* the guard calls c.Next()
GuardPass ==
    /\ xphase = "at"
    /\ ~GuardResponse(xreq.guard, xreq.finding).aborted
    /\ xphase' = "next"
    /\ UNCHANGED <<xreq, xresp>>
    /\ UNCHANGED <<baseVars, tsVars, signVars, ipVars, lockVars, notGuard>>

\* no request has reached a guard
IdleGuard ==
    /\ xreq = NoGuardRequest
    /\ xresp = NoResponse
    /\ xphase = "idle"

\* ------------------------------------------------------- request body
\* c.Request.Body is a stream: a reader takes bytes out of it and a stage
\* that wants later readers to see them puts a new stream in its place.
\* For a server request the body is never nil, so the nil tests of both
\* readers pass; a read that fails is not modelled.
MaxBodyLen == 3
BodyBytes == {"a", "b"}
SentBodies == UNION {[1..n -> BodyBytes] : n \in 0..MaxBodyLen}

\* the body readers in the order in which they are installed, the handler
\* last
Chains == {<<"audit", "signature", "handler">>,
           <<"signature", "audit", "handler">>}

BodyConfigs ==
    [LogRequestBody : BOOLEAN, MaxRequestBodySize : 1..2,
     ValidateBody : BOOLEAN]

NoBodyRequest ==
    [cfg |-> [LogRequestBody |-> FALSE, MaxRequestBodySize |-> 1,
              ValidateBody |-> FALSE],
     chain |-> <<>>, sent |-> <<>>]

\* io.ReadAll: every unread byte, and the stream it leaves behind
ReadAll(stream) == [bytes |-> stream, rest |-> <<>>]

\* io.NopCloser(bytes.NewBuffer(b)): a fresh stream over b
NewBuffer(b) == b

AuditReadBody_RestoreCut(cfg, stream) ==
    IF cfg.LogRequestBody
    THEN LET bodyBytes == ReadAll(stream).bytes
             cut == IF Len(bodyBytes) > cfg.MaxRequestBodySize
                    THEN SubSeq(bodyBytes, 1, cfg.MaxRequestBodySize)
                    ELSE bodyBytes
         IN  [read |-> TRUE, bytes |-> bodyBytes, body |-> NewBuffer(cut)]
    ELSE [read |-> FALSE, bytes |-> <<>>, body |-> stream]

\* the body step of the audit stage: with LogRequestBody the whole body is
\* read, the text for the record is cut at MaxRequestBodySize (SizedBodies
\* and LogBody follow that text), and the request gets a stream over all
\* the bytes read
AuditReadBody(cfg, stream) ==
    IF cfg.LogRequestBody
    THEN LET bodyBytes == ReadAll(stream).bytes
         IN  [read |-> TRUE, bytes |-> bodyBytes, body |-> NewBuffer(bodyBytes)]
    ELSE [read |-> FALSE, bytes |-> <<>>, body |-> stream]

\* the body step of buildSignString: with ValidateBody the whole body is
\* read; a stream over the bytes is put back only when there are any,
\* otherwise the request keeps the stream that was read to its end
SignReadBody(cfg, stream) ==
    IF cfg.ValidateBody
    THEN LET got == ReadAll(stream)
         IN  [read |-> TRUE, bytes |-> got.bytes,
              body |-> IF Len(got.bytes) > 0
                       THEN NewBuffer(got.bytes) ELSE got.rest]
    ELSE [read |-> FALSE, bytes |-> <<>>, body |-> stream]

\* ShouldBindJSON in a handler decodes from the body and puts nothing back
HandlerReadBody(stream) ==
    LET got == ReadAll(stream)
    IN  [read |-> TRUE, bytes |-> got.bytes, body |-> got.rest]

\* the stage that runs next, "" when the request is not being served
AtStage ==
    IF Len(bodyLog) < Len(bodyReq.chain)
    THEN bodyReq.chain[Len(bodyLog) + 1] ELSE ""

Ran(stage, step) ==
    /\ reqBody' = step.body
    /\ bodyLog' = Append(bodyLog, [stage |-> stage, read |-> step.read,
                                   bytes |-> step.bytes])
    /\ UNCHANGED bodyReq
    /\ UNCHANGED <<baseVars, tsVars, signVars, ipVars, lockVars, notBody>>

\* a request with a body reaches the first stage
BodyArrive(cfg, chain, sent) ==
    /\ bodyReq = NoBodyRequest
    /\ bodyReq' = [cfg |-> cfg, chain |-> chain, sent |-> sent]
    /\ reqBody' = NewBuffer(sent)
    /\ bodyLog' = <<>>
    /\ UNCHANGED <<baseVars, tsVars, signVars, ipVars, lockVars, notBody>>

AuditStageBody ==
    /\ AtStage = "audit"
    /\ Ran("audit", AuditReadBody(bodyReq.cfg, reqBody))

SignatureBody ==
    /\ AtStage = "signature"
    /\ Ran("signature", SignReadBody(bodyReq.cfg, reqBody))

HandlerBody ==
    /\ AtStage = "handler"
    /\ Ran("handler", HandlerReadBody(reqBody))

IdleBody ==
    /\ bodyReq = NoBodyRequest
    /\ reqBody = <<>>
    /\ bodyLog = <<>>

\* ------------------------------------------------------- audit entry points
MaxStageRequests == 2
OutputKinds == {"stdout", "file", "both"}
StageConfigs == [Enabled : BOOLEAN, Output : OutputKinds]
DefaultAuditConfig == [Enabled |-> TRUE, Output |-> "both"]
EntryPoints == {"Audit", "AuditWithConfig", "SecurityMiddleware"}

\* a nil *AuditLogger
NilLogger == [nil |-> TRUE, config |-> [Enabled |-> FALSE, Output |-> ""]]

\* NewAuditLogger: with Output "file" or "both" the directory is made and
\* the file opened, and a failure of either returns (nil, error); fsOK
\* says whether both succeed
NewAuditLogger(config, fsOK) ==
    IF config.Output \in {"file", "both"} /\ ~fsOK
    THEN [logger |-> NilLogger, err |-> TRUE]
    ELSE [logger |-> [nil |-> FALSE, config |-> config], err |-> FALSE]

\* func(c *gin.Context) { c.Next() }
PassThrough == [kind |-> "next", logger |-> NilLogger]

\* AuditWithLogger(logger): the stage keeps the pointer it was given
AuditWithLogger(logger) == [kind |-> "audit", logger |-> logger]

Audit(fsOK) ==
    LET made == NewAuditLogger(DefaultAuditConfig, fsOK)
    IN  IF made.err THEN PassThrough ELSE AuditWithLogger(made.logger)

AuditWithConfig(config, fsOK) ==
    LET made == NewAuditLogger(config, fsOK)
    IN  IF made.err THEN PassThrough ELSE AuditWithLogger(made.logger)

\* NewSecurityMiddleware drops the error of NewAuditLogger and keeps the
\* logger it returned
NewSecurityMiddleware(config, fsOK) ==
    [auditLogger |-> NewAuditLogger(config, fsOK).logger]

\* SecurityMiddleware.Apply: the audit stage it installs
Apply(sm) == AuditWithLogger(sm.auditLogger)

\* the stage serving one request: the pass-through calls c.Next(); the
\* audit stage first reads logger.config.Enabled, which panics on a nil
\* logger, and otherwise calls c.Next(), without a record when the logger
\* is disabled or the path excluded
ServeStage(stage, path) ==
    IF stage.kind = "next" THEN "next"
    ELSE IF stage.logger.nil THEN "panic"
    ELSE IF ~stage.logger.config.Enabled \/ Excluded(path, ExcludePaths)
         THEN "next" ELSE "logged"

NoStage ==
    [entry |-> "", config |-> DefaultAuditConfig, failed |-> FALSE,
     handler |-> PassThrough]

\* an entry point builds the audit stage
InstallStage(entry, config, fsOK) ==
    /\ auditStage = NoStage
    /\ entry = "Audit" => config = DefaultAuditConfig
    /\ auditStage' =
          [entry |-> entry,
           config |-> config,
           failed |-> NewAuditLogger(config, fsOK).err,
           handler |-> CASE entry = "Audit" -> Audit(fsOK)
                         [] entry = "AuditWithConfig" ->
                                AuditWithConfig(config, fsOK)
                         [] OTHER -> Apply(NewSecurityMiddleware(config, fsOK))]
    /\ stageLog' = <<>>
    /\ UNCHANGED <<baseVars, tsVars, signVars, ipVars, lockVars, notCtor>>

\* a request reaches the installed stage
StageServe(path) ==
    /\ auditStage # NoStage
    /\ Len(stageLog) < MaxStageRequests
    /\ stageLog' = Append(stageLog,
           [path |-> path, did |-> ServeStage(auditStage.handler, path)])
    /\ UNCHANGED auditStage
    /\ UNCHANGED <<baseVars, tsVars, signVars, ipVars, lockVars, notCtor>>

IdleCtor ==
    /\ auditStage = NoStage
    /\ stageLog = <<>>

\* the limiter pair and the guards are idle
IdleNewest == IdlePair /\ IdleGuard /\ IdleBody /\ IdleCtor

\* the components added later are idle
IdleNewer == IdleMask /\ IdleExcl /\ IdleNewest

\* the components that are studied on their own are idle

IdleLater == IdleConc /\ IdleRole /\ IdleTok /\ IdleSweep /\ IdleNewer

InitExt ==
    /\ tsLast = NoTsCall
    /\ IdleSign
    /\ IdleIP
    /\ IdleLock
    /\ IdleLater

\* the fixed-window limiter, its sweep and the clock
InitFixed ==
    /\ InitExt
    /\ now = 0
    /\ rlConfig \in RateLimitConfigs
    /\ InitFW /\ InitSW
    /\ DefaultSig /\ InitNonce
    /\ DefaultAudit /\ InitAudit
    /\ DefaultIP /\ InitPipe

NextFixed ==
    \/ RLTick
    \/ \E k \in Keys : FWAllow(k)
    \/ FWCleanup

SpecFixed == InitFixed /\ [][NextFixed]_vars

\* the sliding-window limiter, its sweep and the clock
InitSliding ==
    /\ InitExt
    /\ now = 0
    /\ rlConfig \in RateLimitConfigs
    /\ InitFW /\ InitSW
    /\ DefaultSig /\ InitNonce
    /\ DefaultAudit /\ InitAudit
    /\ DefaultIP /\ InitPipe

NextSliding ==
    \/ RLTick
    \/ \E k \in Keys : SWAllow(k)
    \/ SWCleanup

SpecSliding == InitSliding /\ [][NextSliding]_vars

\* both limiters with one configuration, fed the same requests, their
\* sweeps and the clock
InitLimiterPair ==
    /\ InitExt
    /\ now = 0
    /\ rlConfig \in RateLimitConfigs
    /\ InitFW /\ InitSW
    /\ DefaultSig /\ InitNonce
    /\ DefaultAudit /\ InitAudit
    /\ DefaultIP /\ InitPipe

NextLimiterPair ==
    \/ ConcTick
    \/ \E k \in Keys : PairAllow(k)
    \/ PairSweepFixed
    \/ PairSweepSliding

SpecLimiterPair == InitLimiterPair /\ [][NextLimiterPair]_vars

\* requests reach the guards one after the other
InitGuards ==
    /\ InitExt
    /\ now = 0
    /\ DefaultRL /\ InitFW /\ InitSW
    /\ DefaultSig /\ InitNonce
    /\ DefaultAudit /\ InitAudit
    /\ DefaultIP /\ InitPipe

NextGuards ==
    \/ \E req \in GuardRequests : GuardArrive(req)
    \/ GuardReject
    \/ GuardPass

SpecGuards == InitGuards /\ [][NextGuards]_vars

\* one request with a body passes the audit stage, the signature validator
\* and the handler
InitBody ==
    /\ InitExt
    /\ now = 0
    /\ DefaultRL /\ InitFW /\ InitSW
    /\ DefaultSig /\ InitNonce
    /\ DefaultAudit /\ InitAudit
    /\ DefaultIP /\ InitPipe

NextBody ==
    \/ \E cfg \in BodyConfigs : \E chain \in Chains : \E sent \in SentBodies :
           BodyArrive(cfg, chain, sent)
    \/ AuditStageBody
    \/ SignatureBody
    \/ HandlerBody

SpecBody == InitBody /\ [][NextBody]_vars

\* an entry point installs the audit stage and requests reach it
InitEntry ==
    /\ InitExt
    /\ now = 0
    /\ DefaultRL /\ InitFW /\ InitSW
    /\ DefaultSig /\ InitNonce
    /\ DefaultAudit /\ InitAudit
    /\ DefaultIP /\ InitPipe

NextEntry ==
    \/ \E entry \in EntryPoints : \E config \in StageConfigs :
           \E fsOK \in BOOLEAN : InstallStage(entry, config, fsOK)
    \/ \E path \in AuditPaths : StageServe(path)

SpecEntry == InitEntry /\ [][NextEntry]_vars

\* the signature validator with requests validated one after the other
InitNonceSeq ==
    /\ InitExt
    /\ now = 0
    /\ sigConfig \in SignatureConfigs
    /\ InitNonce
    /\ DefaultRL /\ InitFW /\ InitSW
    /\ DefaultAudit /\ InitAudit
    /\ DefaultIP /\ InitPipe

NextNonceSeq ==
    \/ RLTick
    \/ \E req \in SigRequests({0, now, MaxTime}) : Validate(req)
    \/ NonceCleanup

SpecNonce == InitNonceSeq /\ [][NextNonceSeq]_vars

\* the signature validator with one signed request per nonce, sent again
\* and again: each carries a signature, the timestamp set by its sender
\* and the signature the server computes
ReplayedRequests ==
    {[signature |-> TRUE, tsKind |-> "int", ts |-> MaxTolerance, nonce |-> n,
      sigOK |-> TRUE] : n \in Nonces}

NextReplay ==
    \/ RLTick
    \/ \E req \in ReplayedRequests : Validate(req)
    \/ NonceCleanup

SpecReplay == InitNonceSeq /\ [][NextReplay]_vars

\* the signature validator, the request of each call kept in the history
NextTimestamp ==
    \/ RLTick
    \/ \E req \in {r \in SigRequests(0..MaxTime) : r.nonce # "n2"} :
          ValidateAt(req)
    \/ NonceCleanup

SpecTimestamp == InitNonceSeq /\ [][NextTimestamp]_vars

\* signing and validating: a client that calls GenerateSignature, or a
\* caller that signs with the server's rule; the server validates the
\* request and then an altered copy of it
InitSign ==
    /\ now = 0
    /\ DefaultSig /\ InitNonce
    /\ DefaultRL /\ InitFW /\ InitSW
    /\ DefaultAudit /\ InitAudit
    /\ DefaultIP /\ InitPipe
    /\ tsLast = NoTsCall
    /\ IdleIP
    /\ IdleLock
    /\ IdleLater
    /\ signConfig \in [ValidateBody : BOOLEAN,
                        Algorithm : {"hmac-sha256", "md5"},
                        SecretKey : {<<"x">>}]
    /\ cin \in ClientInputs \cup {NoInput}
    /\ cout = NoSignature
    /\ sreq = NoSignedRequest
    /\ first = NoVerdict
    /\ second = NoVerdict
    /\ sphase = "input"

NextSign ==
    \/ ConcTick
    \/ ClientSign("n1")
    \/ \E appKey \in {<<>>} \cup AppKeys : Send(appKey)
    \/ \E req \in UnsignedRequests(now) : SendSigned(req)
    \/ Verify
    \/ \E req \in Tampered(sreq) : VerifyTampered(req)

SpecSign == InitSign /\ [][NextSign]_vars

\* signing and validating: the server validates a request and then the
\* copy of it that carries the nonce in the app-key field
NextMoved ==
    \/ ConcTick
    \/ ClientSign("n1")
    \/ \E appKey \in {<<>>} \cup AppKeys : Send(appKey)
    \/ \E req \in UnsignedRequests(now) : SendSigned(req)
    \/ Verify
    \/ \E req \in NonceAsAppKey(sreq) : VerifyTampered(req)

SpecMoved == InitSign /\ [][NextMoved]_vars

\* the state of the components that the studies of single components leave
\* alone
InitBase ==
    /\ now = 0
    /\ DefaultSig /\ InitNonce
    /\ DefaultRL /\ InitFW /\ InitSW
    /\ DefaultAudit /\ InitAudit
    /\ DefaultIP /\ InitPipe

\* the configurations an IPFilter is constructed with
IPFilterConfigs ==
    [WhitelistMode : BOOLEAN, AllowPrivate : BOOLEAN,
     Whitelist : SUBSET Entries, Blacklist : SUBSET Entries]

\* an IPFilter, its lookups and its mutations, one call at a time
InitIPRules ==
    /\ InitBase
    /\ tsLast = NoTsCall
    /\ IdleSign
    /\ \E config \in IPFilterConfigs : filt = NewIPFilter(config)
    /\ ires = NoLookup
    /\ IdleLock
    /\ IdleLater

NextIPRules ==
    \/ \E ip \in Addresses : IPLookup(ip)
    \/ \E kind \in Mutations : \E e \in Entries : IPMutate(kind, e)

SpecIPRules == InitIPRules /\ [][NextIPRules]_vars

\* an IPFilter whose lookups and mutations run on concurrent goroutines
InitIPLock ==
    /\ InitBase
    /\ tsLast = NoTsCall
    /\ IdleSign
    /\ \E mode \in BOOLEAN :
          filt = NewIPFilter([WhitelistMode |-> mode, AllowPrivate |-> TRUE,
                              Whitelist |-> {}, Blacklist |-> {}])
    /\ ires = NoLookup
    /\ IdleLock
    /\ IdleLater

NextIPLock ==
    \/ \E g \in Goroutines : \E ip \in LockAddresses : StartLookup(g, ip)
    \/ \E g \in Goroutines : RLockAcquire(g)
    \/ \E g \in Goroutines : ReadExact(g)
    \/ \E g \in Goroutines : ReadNets(g)
    \/ \E g \in Goroutines : \E kind \in Mutations : \E e \in LockEntries :
          StartMutate(g, kind, e)
    \/ \E g \in Goroutines : LockAcquire(g)
    \/ \E g \in Goroutines : WriteRules(g)

SpecIPLock == InitIPLock /\ [][NextIPLock]_vars

\* one limiter, fixed-window or sliding-window, whose Allow calls and
\* cleanup run on concurrent goroutines
InitLimiterConc ==
    /\ now = 0
    /\ rlConfig \in RateLimitConfigs
    /\ InitFW /\ InitSW
    /\ DefaultSig /\ InitNonce
    /\ DefaultAudit /\ InitAudit
    /\ DefaultIP /\ InitPipe
    /\ tsLast = NoTsCall
    /\ IdleSign
    /\ IdleIP
    /\ IdleLock
    /\ cunder \in Limiters
    /\ cpc = [g \in Goroutines |-> "idle"]
    /\ cloc = [g \in Goroutines |-> NoLocal]
    /\ mu = ""
    /\ spc = "wait"
    /\ cwin = NoWindow
    /\ cstarted = 0
    /\ IdleRole
    /\ IdleTok
    /\ IdleSweep
    /\ IdleNewer

\* requests at the two RequireRole guards
InitRole ==
    /\ InitBase
    /\ tsLast = NoTsCall
    /\ IdleSign
    /\ IdleIP
    /\ IdleLock
    /\ IdleConc
    /\ IdleRole
    /\ IdleTok
    /\ IdleSweep
    /\ IdleNewer

\* a token is issued and then parsed, and shown to the JWT guard, as the
\* clock advances
InitToken ==
    /\ InitBase
    /\ tsLast = NoTsCall
    /\ IdleSign
    /\ IdleIP
    /\ IdleLock
    /\ IdleLater

NextToken ==
    \/ RLTick
    \/ \E userID \in UserIDs : \E username \in Usernames : \E role \in Roles :
          \E config \in JWTConfigs : IssueToken(userID, username, role, config)
    \/ ParseIssued
    \/ \E header \in AuthHeaders(tok) : GuardRequest(header)

SpecToken == InitToken /\ [][NextToken]_vars

\* requests at the audit stage of a logger, and the writer of the logger
InitAuditStage ==
    /\ now = 0
    /\ DefaultSig /\ InitNonce
    /\ DefaultRL /\ InitFW /\ InitSW
    /\ auditConfig \in [Enabled : BOOLEAN, Async : {TRUE}]
    /\ InitAudit
    /\ DefaultIP /\ InitPipe
    /\ tsLast = NoTsCall
    /\ IdleSign
    /\ IdleIP
    /\ IdleLock
    /\ IdleConc /\ IdleRole /\ IdleTok /\ IdleSweep
    /\ IdleMask /\ IdleNewest
    /\ aconf \in [ExcludePaths : {{}, {"/health"}}, LogRequestBody : BOOLEAN]
    /\ areq = NoAuditRequest
    /\ aset = NoAuditEffect
    /\ asnap = {}
    /\ aphase = "idle"

NextAuditStage ==
    \/ \E req \in [path : AuditPaths, requestID : {"", "r1"}, body : {"", "b"}] :
          AuditArrive(req)
    \/ AuditBefore
    \/ AuditNext
    \/ AuditSkipReturn
    \/ AuditRecord
    \/ WriterRecv
    \/ WriterWrite

SpecAuditStage == InitAuditStage /\ [][NextAuditStage]_vars

\* the audit stage logs a body that is a JSON object with the member
\* "password"; head is the set of its members that lie wholly inside the
\* first MaxRequestBodySize bytes of the body (all of them for a body
\* within the limit)
SizedBodies ==
    {b \in [val : ObjectsOver(JFlat), over : BOOLEAN, head : SUBSET JKeys] :
        /\ "password" \in DOMAIN b.val.m
        /\ b.head \subseteq DOMAIN b.val.m
        /\ ~b.over => b.head = DOMAIN b.val.m}

InitTruncate ==
    /\ InitBase
    /\ tsLast = NoTsCall
    /\ IdleSign
    /\ IdleIP
    /\ IdleLock
    /\ IdleConc /\ IdleRole /\ IdleTok /\ IdleSweep
    /\ IdleExcl /\ IdleNewest
    /\ mbody \in SizedBodies
    /\ mfields \in {<<"password">>, <<"name", "password">>}
    /\ mlogged = NoBody
    /\ mphase = "body"

SpecTruncate == InitTruncate /\ [][LogBody]_vars

\* the audit stage logs the body of a request
InitMask ==
    /\ InitBase
    /\ tsLast = NoTsCall
    /\ IdleSign
    /\ IdleIP
    /\ IdleLock
    /\ IdleConc /\ IdleRole /\ IdleTok /\ IdleSweep
    /\ IdleExcl /\ IdleNewest
    /\ mbody \in [val : JSONBodies, over : BOOLEAN]
    /\ mfields \in {<<"password">>, <<"name", "password">>}
    /\ mlogged = NoBody
    /\ mphase = "body"

NextMask == LogBody

SpecMask == InitMask /\ [][NextMask]_vars

\* a SecurityMiddleware with its limiters: requests, the clock, the cleanup
\* goroutines, SecurityMiddleware.Close and the exit of the process
InitSweepers ==
    /\ InitBase
    /\ tsLast = NoTsCall
    /\ IdleSign
    /\ IdleIP
    /\ IdleLock
    /\ IdleLater

NextSweepers ==
    \/ ~pexit /\ RLTick
    \/ ~pexit /\ FWAllow(ConcKey)
    \/ ~pexit /\ SWAllow(ConcKey)
    \/ \E l \in Limiters : SweeperFire(l)
    \/ FixedSweeperRun
    \/ SlidingSweeperRun
    \/ ~pexit /\ CloseBegin
    \/ ~pexit /\ WriterExit
    \/ ~pexit /\ CloseFinish
    \/ ProcessExit

\* the tickers keep firing, a goroutine that can run does run; requests,
\* Close and the signal are up to the environment
FairSweepers ==
    /\ \A l \in Limiters : WF_vars(SweeperFire(l))
    /\ WF_vars(FixedSweeperRun)
    /\ WF_vars(SlidingSweeperRun)
    /\ WF_vars(~pexit /\ WriterExit)
    /\ WF_vars(~pexit /\ CloseFinish)

SpecSweepers == InitSweepers /\ [][NextSweepers]_vars /\ FairSweepers

NextRole ==
    \/ \E guard \in RoleGuards : \E ann \in Annotations : \E roles \in SUBSET Roles :
          RoleArrive(guard, ann, roles)
    \/ RoleGuard
    \/ RoleNext

SpecRole == InitRole /\ [][NextRole]_vars

NextLimiterConc ==
    \/ ConcTick
    \/ \E g \in Goroutines : CallAllow(g)
    \/ \E g \in Goroutines : AllowLock(g)
    \/ \E g \in Goroutines : FixedAllowRead(g)
    \/ \E g \in Goroutines : FixedAllowWrite(g)
    \/ \E g \in Goroutines : SlidingAllowRead(g)
    \/ \E g \in Goroutines : SlidingAllowWrite(g)
    \/ SweepTick
    \/ SweepLock
    \/ FixedSweep
    \/ SlidingSweep

SpecLimiterConc == InitLimiterConc /\ [][NextLimiterConc]_vars

\* the signature validator with requests served on concurrent goroutines
NextNonceConc ==
    \/ ConcTick
    \/ \E g \in Goroutines : \E req \in SigRequests({now}) : GoBegin(g, req)
    \/ \E g \in Goroutines : GoLookup(g)
    \/ \E g \in Goroutines : GoRecord(g)
    \/ \E g \in Goroutines : GoCompare(g)
    \/ NonceCleanup

SpecNonceConc == InitNonceSeq /\ [][NextNonceConc]_vars

\* the audit logger with its callers, its writer goroutine and Close
InitLogger ==
    /\ InitExt
    /\ now = 0
    /\ auditConfig \in [Enabled : {TRUE}, Async : BOOLEAN]
    /\ InitAudit
    /\ DefaultRL /\ InitFW /\ InitSW
    /\ DefaultSig /\ InitNonce
    /\ DefaultIP /\ InitPipe

NextLogger ==
    \/ LogCall
    \/ WriterRecv
    \/ WriterWrite
    \/ WriterExit
    \/ CloseBegin
    \/ CloseFinish

SpecAudit == InitLogger /\ [][NextLogger]_vars

\* the server of cmd/server/main.go: requests through the chain, the audit
\* writer, the sweeps, the clock and the signal handler
InitServer ==
    /\ InitExt
    /\ now = 0
    /\ DefaultIP /\ InitPipe
    /\ DefaultRL /\ InitFW /\ InitSW
    /\ DefaultSig /\ InitNonce
    /\ auditConfig \in [Enabled : BOOLEAN, Async : {TRUE}]
    /\ InitAudit

NextServer ==
    \/ \E r \in Requests(now) : NewRequest(r)
    \/ IPFilterStage
    \/ RateLimitStage
    \/ AuditStage
    \/ SecurityAuditStage
    \/ LoggerStage
    \/ JWTStage
    \/ RoleStage
    \/ SignatureStage
    \/ HandlerStage
    \/ AuditAfter
    \/ RequestDone
    \/ ServerWriterRecv
    \/ ServerWriterWrite
    \/ ServerFWCleanup
    \/ ServerNonceCleanup
    \/ ServerTick
    \/ Shutdown

SpecServer == InitServer /\ [][NextServer]_vars

\* ------------------------------------------------------------ claims
\* what C1 says of the last RateLimiter.Allow call: the call with number idx
\* in its window returned true exactly when idx <= MaxRequests, and the call
\* that opened a window returned true and left count = 1, startTime = now
FixedWindowContract ==
    fwLast.idx >= 1 =>
        /\ fwLast.ok <=> (fwLast.idx <= rlConfig.MaxRequests)
        /\ fwLast.idx = 1 =>
              /\ fwLast.ok
              /\ fwLast.entry = [exists |-> TRUE, count |-> 1,
                                  startTime |-> fwLast.at]

\* C1 as stated, for every MaxRequests = N: of the requests of a key inside
\* one window exactly the first N are allowed, and the first request after
\* the window elapsed is allowed and resets the entry to (1, now)
C1_FixedWindowExactlyN_AnyN == FixedWindowContract

\* C1 amended, for MaxRequests = N >= 1: of the requests of a key inside one
\* window exactly the first N are allowed, and the first request after the
\* window elapsed is allowed and resets the entry to (1, now)
C1_FixedWindowExactlyN == rlConfig.MaxRequests >= 1 => FixedWindowContract

\* a key was rejected in one window and opened the next window
C1_Witness ==
    /\ rlConfig.MaxRequests >= 1
    /\ fwLast.idx = 1
    /\ fwLast.ok
    /\ fwLast.prevIdx > rlConfig.MaxRequests

\* the number of allowed sliding calls of a log with a time in [lo, hi]
CountIn(log, lo, hi) ==
    Cardinality({i \in DOMAIN log : lo <= log[i] /\ log[i] <= hi})

\* C2: for every key and every time t, at most MaxRequests calls of
\* SlidingWindowRateLimiter.Allow returned true at a time in [t - Window, t]
C2_SlidingWindowAtMostN ==
    \A k \in Keys : \A t \in 0..MaxTime :
        CountIn(swLog[k], t - rlConfig.Window, t) <= rlConfig.MaxRequests

\* a key was allowed more than MaxRequests times in all, its list is full
C2_Witness ==
    \E k \in Keys :
        /\ rlConfig.MaxRequests >= 1
        /\ Len(swLog[k]) > rlConfig.MaxRequests
        /\ Len(requests[k]) = rlConfig.MaxRequests

\* the last element of a non-empty sequence
Last(seq) == seq[Len(seq)]

\* C3: two requests with the same nonce pass the nonce step only more than
\* Expiry apart, and the ledger keeps the entry of a nonce, with the time of
\* its pass, for as long as the pass is at most Expiry old
C3_NonceRejectedWithinExpiry ==
    \A n \in Nonces :
        /\ \A i, j \in DOMAIN passLog[n] :
              i < j => Sub(passLog[n][j], passLog[n][i]) > sigConfig.Expiry
        /\ (passLog[n] # <<>> /\ Sub(now, Last(passLog[n])) <= sigConfig.Expiry)
              => nonceStore[n] = [exists |-> TRUE, t |-> Last(passLog[n])]

\* a request is rejected as a duplicate exactly Expiry after the pass of its
\* nonce, after the cleanup that the pass started has run
C3_Witness ==
    /\ sigLast.result = "duplicate"
    /\ passLog[sigLast.nonce] # <<>>
    /\ Sub(sigLast.at, Last(passLog[sigLast.nonce])) = sigConfig.Expiry
    /\ cleanups = 0

\* C4: no two goroutines validating requests with the same nonce have both
\* found the nonce absent (both are about to record it, both pass)
C4_AtMostOnePassesNonceStep ==
    \A g1, g2 \in Goroutines :
        (g1 # g2 /\ gpc[g1] = "record" /\ gpc[g2] = "record")
            => greq[g1].nonce # greq[g2].nonce

\* the number of places a record is in: buffered, held by asyncWriter, written
Copies(rec) ==
    Occurrences(logChan, rec) + Occurrences(file, rec)
        + (IF writerItem = rec THEN 1 ELSE 0)

\* C5: in async mode Log never blocks on the channel: a record offered to a
\* channel with room is buffered, one offered to a full channel is written by
\* the caller; every record whose Log call returned is in exactly one place
\* (buffered, held by the writer, or written once)
C5_AuditNoLossOnSaturation ==
    auditConfig.Async =>
        /\ \A rec \in accepted : Copies(rec) = 1
        /\ lastLog.path = "queued" => lastLog.qlen < BufferSize
        /\ lastLog.path = "sync" =>
              lastLog.qlen = BufferSize /\ lastLog.rec \in Range(file)
        /\ closePc = "open" => refused = {}

\* a record met a full channel and was written by its caller before the
\* records buffered ahead of it
C5_Witness ==
    /\ auditConfig.Async
    /\ lastLog.path = "sync"
    /\ closePc = "open"
    /\ Len(logChan) = BufferSize
    /\ lastLog.rec \in Range(file)

\* C6: once Close has closed the file, the channel is closed and drained, the
\* writer has finished, and every record that was buffered when Close was
\* called, and every record ever buffered, is written
C6_CloseDrainsBeforeFileClose ==
    (fileClosed /\ auditConfig.Async) =>
        /\ chanClosed
        /\ logChan = <<>>
        /\ writerPc = "done"
        /\ atClose \subseteq Range(file)
        /\ \A rec \in accepted : Occurrences(file, rec) = 1

\* Close was called with records buffered and has closed the file
C6_Witness ==
    /\ fileClosed
    /\ auditConfig.Async
    /\ Cardinality(atClose) >= 2

\* C7: when the process has exited on the signal, every audit record that
\* Log accepted is in the audit log file
C7_AllRecordsWrittenAtExit ==
    exited => \A rec \in accepted : rec \in Range(file)

\* the place of a stage in the order C8 states: admission, rate limit, audit
\* wrap, authentication or signature, role check, handler; 0 for a stage
\* the order does not mention
Rank(stage) ==
    CASE stage = "IPFilter" -> 1
      [] stage = "RateLimit" -> 2
      [] stage = "Audit" -> 3
      [] stage \in {"JWTAuth", "APISignature"} -> 4
      [] stage = "RequireRole" -> 5
      [] stage = "Handler" -> 6
      [] OTHER -> 0

\* the guards of the chain of a route
Guards(route) == {st \in Range(Chain(route)) : Rank(st) \in 1..5}

\* C8: the stages of a request run in the order IP admission, rate limit,
\* audit wrap, authentication/signature, role check, handler, starting with
\* IP admission; a stage that rejects is the last stage to run (no later
\* guard, no handler); the handler runs only after every guard of the route
\* ran and none rejected
C8_PipelineOrderAndShortCircuit ==
    /\ trace # <<>> => trace[1] = "IPFilter"
    /\ \A i, j \in DOMAIN trace :
          (i < j /\ Rank(trace[i]) > 0 /\ Rank(trace[j]) > 0)
              => Rank(trace[i]) < Rank(trace[j])
    /\ rejectedBy # "" =>
          /\ Last(trace) = rejectedBy
          /\ aborted
          /\ "Handler" \notin Range(trace)
          /\ status \in {400, 401, 403, 429}
    /\ "Handler" \in Range(trace) =>
          /\ rejectedBy = ""
          /\ Guards(inflight.route) \subseteq Range(trace)

\* a request with a valid user token was stopped by the role check after
\* passing every earlier guard
C8_Witness ==
    /\ phase = "finished"
    /\ rejectedBy = "RequireRole"
    /\ status = 403
    /\ Len(trace) = 7

\* C9: a request that the IP filter rejects has status 403, no stage after
\* the IP filter ran for it, and no stage of it changed the rate-limiter
\* entries, the nonce ledger, the audit queue or the audit file, whatever
\* token or signature it carries
C9_IPRejectionTouchesNothing ==
    rejectedBy = "IPFilter" =>
        /\ status = 403
        /\ ~mutated
        /\ trace = <<"IPFilter">>
        /\ reqLogs = <<>>

\* a request from the blacklisted block with a valid admin token was served
\* after earlier requests filled the limiter and the audit queue
C9_Witness ==
    /\ phase = "finished"
    /\ rejectedBy = "IPFilter"
    /\ inflight.token = "admin"
    /\ \E k \in Keys : entries[k].exists
    /\ accepted # {}

\* C10: a request that entered the audit wrap (logger enabled, path not
\* excluded) has no audit record while stages of it still run, and when it
\* is finished exactly one, submitted after its last stage, with the status
\* of the response
C10_AuditRecordHasRealizedStatus ==
    LET wrapped == /\ "Audit" \in Range(trace)
                   /\ auditConfig.Enabled
                   /\ inflight.route \notin ExcludePaths
    IN  /\ (phase = "finished" /\ wrapped) =>
              /\ Len(reqLogs) = 1
              /\ reqLogs[1].status = status
              /\ reqLogs[1].after = Len(trace)
        /\ (phase = "running" /\ wrapped) =>
              /\ Len(reqLogs) <= 1
              /\ reqLogs # <<>> => reqLogs[1].after = Len(trace) /\ Current = ""

\* a request that the JWT guard rejected is finished and audited with 401
C10_Witness ==
    /\ phase = "finished"
    /\ rejectedBy = "JWTAuth"
    /\ Len(reqLogs) = 1
    /\ reqLogs[1].status = 401

\* C11: a request with a signature and an integer timestamp ts validated at
\* time t is rejected (400, expired) whenever t - ts > Expiry or
\* ts - t > TimeTolerance, with a correct signature too, and the call neither
\* writes the nonce ledger nor starts its cleanup; a request with ts in
\* [t - Expiry, t + TimeTolerance] is not rejected as expired
C11_TimestampWindow ==
    (tsLast.req.signature /\ tsLast.req.tsKind = "int") =>
        LET outside == \/ tsLast.at - tsLast.req.ts > sigConfig.Expiry
                       \/ tsLast.req.ts - tsLast.at > sigConfig.TimeTolerance
        IN  /\ outside => /\ tsLast.result = "expired"
                          /\ SigStatus(tsLast.result) = 400
                          /\ ~tsLast.touched
            /\ ~outside => tsLast.result # "expired"

\* a request with a correct signature and an unused nonce was rejected one
\* tick past Expiry
C11_Witness ==
    /\ tsLast.result = "expired"
    /\ tsLast.req.sigOK
    /\ tsLast.req.nonce # ""
    /\ ~nonceStore[tsLast.req.nonce].exists
    /\ tsLast.at - tsLast.req.ts = sigConfig.Expiry + 1

\* C12: with the configuration of APISignature() (HMAC-SHA256, body
\* validation on), a request built from the values GenerateSignature
\* returned, with the same method, path, params and body and no other
\* header, validated while its timestamp is at most Expiry old and its nonce
\* unused, passes the validator
C12_SignVerifyRoundTrip ==
    (/\ cin # NoInput
     /\ first.result # ""
     /\ sreq.xAppKey = <<>>
     /\ signConfig.ValidateBody /\ signConfig.Algorithm = "hmac-sha256"
     /\ first.at - ParseInt(cout.timestamp) <= sigConfig.Expiry)
        => first.result = "pass"

\* C13: for the request a client built from a GenerateSignature call, the
\* signing string of GenerateSignature equals the one buildSignString
\* builds on the server, app key present or absent, body present or absent,
\* body validation on or off
C13_SameSigningString ==
    (cin # NoInput /\ sphase \in {"sent", "verified", "done"}) =>
        ClientSignString(cin.method, cin.path, cin.params, cin.body,
                         cout.timestamp, Str(cout.nonce))
        = BuildSignString(sreq, signConfig,
                          HeaderOrQuery(sreq, "xTimestamp", TimestampParam),
                          Str(sreq.xNonce),
                          HeaderOrQuery(sreq, "xAppKey", AppKeyParam))

\* C14: with the configuration of APISignature() (HMAC-SHA256, body
\* validation on), after a request passed the validator, a request that
\* differs from it in the body, in the path or in one value of one query
\* parameter and carries the same signature does not pass
C14_TamperedNeverPasses ==
    (/\ first.result = "pass"
     /\ second.result # ""
     /\ signConfig.ValidateBody /\ signConfig.Algorithm = "hmac-sha256")
        => second.result # "pass"

\* C15: for a string that parses as an address, IsAllowed returns true in
\* allow-list mode exactly when the address is an exact allow entry, or is
\* inside an allowed CIDR block, or AllowPrivate is on and the address is
\* private or loopback; in deny-list mode exactly when it is no exact deny
\* entry and inside no denied CIDR block
C15_IsAllowedDecision ==
    ires.ip \in ValidIPs =>
        /\ filt.WhitelistMode =>
              (ires.ok <=>
                  \/ ires.ip \in filt.whitelist
                  \/ \E block \in filt.whiteNets : BlockContains(block, ires.ip)
                  \/ filt.AllowPrivate /\ IsPrivateIP(ires.ip))
        /\ ~filt.WhitelistMode =>
              (ires.ok <=>
                  /\ ires.ip \notin filt.blacklist
                  /\ \A block \in filt.blackNets : ~BlockContains(block, ires.ip))

\* in allow-list mode with AllowPrivate off a private address that is in
\* no allow entry was rejected while the list allows a block
C15_Witness ==
    /\ filt.WhitelistMode /\ ~filt.AllowPrivate
    /\ filt.whiteNets # {}
    /\ ires.ip = "10.0.0.1"
    /\ ~ires.ok

\* C16: no mutation is inside the write lock while a lookup is inside the
\* read lock, no two mutations are inside the write lock together, and a
\* lookup returns the decision on the rule set as it is at its return,
\* which holds every mutation that returned before the lookup started
C16_RuleSetLocking ==
    /\ Writers # {} => Readers = {}
    /\ Cardinality(Writers) <= 1
    /\ lhist.ok = lhist.want

\* a lookup is between its two reads while a mutation waits for the lock,
\* after an earlier mutation changed the rule set
C16_Witness ==
    /\ \E g, h \in Goroutines : lpc[g] = "readNets" /\ lpc[h] = "lock"
    /\ filt.blacklist # {} \/ filt.whitelist # {}

Min(a, b) == IF a <= b THEN a ELSE b

\* the request path and the cleanup are never between Lock and Unlock
\* together, and of the calls of the key inside one window exactly
\* min(MaxRequests, calls) returned true
ConcurrentLimit ==
    /\ Cardinality(InMap) <= 1
    /\ cwin.allowed = Min(rlConfig.MaxRequests, cwin.calls)

\* C17 as stated, for every MaxRequests
C17_ConcurrentAllowExactlyMin_AnyN == ConcurrentLimit

\* C17: under concurrent Allow calls for one key inside one window, exactly
\* min(N, calls) return true on the sliding-window limiter, and on the
\* fixed-window limiter when N >= 1; the request path and the cleanup never
\* hold the lock of the map together
C17_ConcurrentAllowExactlyMin ==
    (cunder = "fixed" => rlConfig.MaxRequests >= 1) => ConcurrentLimit

\* more calls than MaxRequests were made inside the window, one more call
\* waits for the lock and the cleanup holds it
C17_Witness ==
    /\ rlConfig.MaxRequests >= 1
    /\ cwin.calls > rlConfig.MaxRequests
    /\ spc = "sweep"
    /\ \E g \in Goroutines : cpc[g] = "lock"

\* C18: a RequireRole guard lets the next stage run only for a request that
\* carries the annotation with a role of the list; without the annotation,
\* or with a role outside the list, it answers 401 or 403 and aborts
C18_RoleCheckFailsClosed ==
    LET member == rreq.ann.exists /\ rreq.ann.role \in rreq.roles IN
    /\ rphase = "next" \/ rout.nextRan => member
    /\ rphase = "done" /\ ~member =>
          rout.aborted /\ rout.status \in {401, 403} /\ ~rout.nextRan
    /\ rphase = "done" /\ member => rout.nextRan

\* the middleware guard has denied a request that carries no annotation
C18_Witness ==
    /\ rphase = "done"
    /\ rreq.guard = "middleware"
    /\ ~rreq.ann.exists
    /\ "admin" \in rreq.roles
    /\ rout.aborted /\ rout.status = 403

\* the JWT guard sets the annotations exactly when ParseToken succeeded, to
\* the claims of the token, and else answers 401 and aborts
GuardAttachesOnSuccess ==
    tguard.done =>
        /\ tguard.ann.exists <=> tguard.parsed
        /\ tguard.ann.exists => tguard.ann.claims = tissue.claims /\ ~tguard.aborted
        /\ ~tguard.parsed => tguard.status = 401 /\ tguard.aborted

\* C19 as stated: ParseToken succeeds with the issued claims before ttl has
\* elapsed since the issue, and fails with the expiry error after
C19_TokenLifecycle_ByTTL ==
    /\ tres.done /\ Sub(tres.at, tissue.at) < tissue.ttl =>
          tres.ok /\ tres.claims = tissue.claims
    /\ tres.done /\ Sub(tres.at, tissue.at) > tissue.ttl =>
          ~tres.ok /\ tres.err = "expired"
    /\ GuardAttachesOnSuccess

\* C19: ParseToken succeeds with the issued claims before the expiry
\* instant, which is issue time + ttl cut to the whole second, and fails
\* with the expiry error from that instant on; the JWT guard attaches the
\* identity only when ParseToken succeeds and else answers 401 and aborts
C19_TokenLifecycle ==
    /\ tres.done /\ tres.at < Truncate(tissue.at + tissue.ttl) =>
          tres.ok /\ tres.claims = tissue.claims
    /\ tres.done /\ tres.at >= Truncate(tissue.at + tissue.ttl) =>
          ~tres.ok /\ tres.err = "expired"
    /\ GuardAttachesOnSuccess

\* a token issued off the second boundary was parsed in the last second of
\* its ttl and found expired, and the guard refused it
C19_Witness ==
    /\ tres.done /\ ~tres.ok
    /\ Sub(tres.at, tissue.at) < tissue.ttl
    /\ tguard.done /\ tguard.status = 401 /\ tguard.aborted

\* C20: once SecurityMiddleware.Close has returned or the process has shut
\* down, the cleanup goroutine of every limiter eventually terminates
C20_SweepersStopOnShutdown ==
    (SecurityMiddlewareClosed \/ pexit) ~> (\A l \in Limiters : swpc[l] = "stopped")

\* the value with every key of fields, at any depth, inside objects and
\* arrays, set to the mask token
RECURSIVE Redact(_, _)
Redact(val, fields) ==
    IF val.t = "obj"
    THEN [t |-> "obj",
          m |-> [key \in DOMAIN val.m |->
                    IF key \in fields THEN Masked ELSE Redact(val.m[key], fields)]]
    ELSE IF val.t = "arr"
    THEN [t |-> "arr", a |-> [i \in DOMAIN val.a |-> Redact(val.a[i], fields)]]
    ELSE val

\* C21: the logged body of a JSON body within the size limit is that body
\* with the value of every sensitive key at any depth replaced by the mask
\* token and all else intact
C21_RedactionAtAnyDepth ==
    mphase = "logged" /\ ~mbody.over =>
        mlogged = [kind |-> "json", val |-> Redact(mbody.val, Range(mfields))]

\* C22: a request whose path equals an excluded path goes to the next stage
\* with no record handed to the logger, no request_id set by the audit
\* stage and its body unread
C22_ExcludedPathUntouched ==
    areq.path \in aconf.ExcludePaths =>
        /\ aset.request_id = "" /\ ~aset.bodyRead /\ ~aset.wrapped
        /\ Handed = asnap
        /\ aphase \in {"after", "done"} => aset.nextRan

\* an excluded request has gone through the stage of an enabled logger that
\* logs bodies, after another request was recorded
C22_Witness ==
    /\ aphase = "done"
    /\ auditConfig.Enabled /\ aconf.LogRequestBody
    /\ areq.path \in aconf.ExcludePaths /\ areq.body # ""
    /\ aset.nextRan
    /\ Handed # {}

\* C23: right after a sweep of the fixed-window limiter no key is left whose
\* window started more than Window before the sweep; right after a sweep of
\* the sliding-window limiter every key left has a timestamp, no list holds a
\* timestamp older than Window, and no timestamp of the last Window was
\* dropped; neither sweep removes a key with activity inside its window
FixedSwept ==
    \A k \in Keys :
        /\ entries[k].exists =>
               Sub(plast.at, entries[k].startTime) <= rlConfig.Window
        /\ plast.entries[k].exists /\ ~entries[k].exists =>
               Sub(plast.at, plast.entries[k].startTime) > rlConfig.Window
        /\ entries[k].exists => entries[k] = plast.entries[k]

SlidingSwept ==
    /\ \A k \in swKeys :
        /\ requests[k] # <<>>
        /\ \A i \in DOMAIN requests[k] :
               Sub(plast.at, requests[k][i]) <= rlConfig.Window
        /\ CountIn(requests[k], plast.at - rlConfig.Window, plast.at)
               = CountIn(plast.requests[k], plast.at - rlConfig.Window, plast.at)
    /\ swKeys \subseteq plast.keys
    /\ \A k \in plast.keys \ swKeys :
           \A i \in DOMAIN plast.requests[k] :
               Sub(plast.at, plast.requests[k][i]) > rlConfig.Window

C23_SweepBoundsMemory ==
    /\ plast.op = "sweepFixed" => FixedSwept
    /\ plast.op = "sweepSliding" => SlidingSwept

\* a sweep has removed an expired key of each limiter while an active key
\* stays
C23_Witness ==
    /\ plast.op = "sweepSliding"
    /\ plast.keys \ swKeys # {}
    /\ swKeys # {}
    /\ \E k \in Keys : ~entries[k].exists /\ plog[k] # <<>>
    /\ \E k \in Keys : entries[k].exists

\* C24: a guard that rejects a request writes a body whose code is the HTTP
\* status and aborts the chain; the status is 400 for missing or malformed
\* signature parameters or timestamp, 401 for a missing, malformed, invalid
\* or expired token and for a signature mismatch, 403 for a blocked IP and a
\* denied role, 429 for an exceeded rate limit, and never another one
ClaimedStatus(finding) ==
    CASE finding \in {"missingParams", "badTimestamp"} -> {400}
      [] finding \in {"missingToken", "malformedToken", "invalidToken",
                      "expiredToken", "mismatch"} -> {401}
      [] finding \in {"blockedIP", "roleDenied"} -> {403}
      [] finding = "limited" -> {429}
      [] OTHER -> {400, 401, 403, 429}

AllowedFixedIn(log, lo, hi) ==
    Cardinality({i \in DOMAIN log :
                    log[i].okF /\ lo <= log[i].at /\ log[i].at <= hi})

\* the most requests of one key that the fixed-window limiter allowed in an
\* interval of length Window
BoundaryBurst(k) ==
    LET counts == {AllowedFixedIn(plog[k], lo, lo + rlConfig.Window) :
                      lo \in 0..now} IN
    CHOOSE c \in counts : \A d \in counts : d <= c

\* C25 as stated: in any interval of length at most Window the fixed-window
\* limiter allows at most 2 * MaxRequests requests of one key
C25_BoundaryBurst_TwiceN ==
    \A k \in Keys : BoundaryBurst(k) <= 2 * rlConfig.MaxRequests

\* C25: with MaxRequests >= 1 the fixed-window limiter allows at most
\* 2 * MaxRequests - 1 requests of one key in any interval of length at most
\* Window (the request that opens a window lies more than Window before the
\* one that opens the next); with MaxRequests = 0 it allows at most one
C25_BoundaryBurst ==
    \A k \in Keys :
        /\ rlConfig.MaxRequests >= 1 =>
               BoundaryBurst(k) <= 2 * rlConfig.MaxRequests - 1
        /\ rlConfig.MaxRequests = 0 => BoundaryBurst(k) <= 1

\* MaxRequests - 1 requests at the end of one window and MaxRequests at the
\* start of the next were allowed
C25_Witness ==
    /\ rlConfig.MaxRequests = 2
    /\ \E k \in Keys : BoundaryBurst(k) = 3

\* C26: a request the fixed-window limiter rejects leaves the entry of its
\* key as it was; a request the sliding-window limiter rejects adds no
\* timestamp to the list of its key and drops exactly those older than
\* Window; a request allowed inside the key's current fixed window adds one
\* to its count and leaves its start in place
C26_RejectedLeavesState ==
    plast.op = "allow" =>
        LET k == plast.key
            before == plast.entries[k] IN
        /\ ~plast.okF => entries[k] = before
        /\ ~plast.okS =>
               \A t \in 0..MaxTime :
                   Occurrences(requests[k], t) =
                       IF Sub(plast.at, t) <= rlConfig.Window
                       THEN Occurrences(plast.requests[k], t) ELSE 0
        /\ /\ plast.okF
           /\ before.exists
           /\ Sub(plast.at, before.startTime) <= rlConfig.Window
           => /\ entries[k].count = before.count + 1
              /\ entries[k].startTime = before.startTime
              /\ entries[k].exists

\* both limiters reject a request of a key whose fixed window had counted
\* a second request before
C26_Witness ==
    /\ plast.op = "allow"
    /\ ~plast.okF /\ ~plast.okS
    /\ plast.entries[plast.key].count >= 2
    /\ plast.requests[plast.key] # <<>>

\* the requests of key k so far that fall inside the window of length
\* Window that its first request opens
InFirstWindow(k) ==
    {i \in DOMAIN plog[k] : Sub(plog[k][i].at, plog[k][1].at) <= rlConfig.Window}

\* C27 as stated: for every MaxRequests, 0 included, both limiters decide
\* alike on every request of a burst of a fresh key inside one window
C27_Interchangeable_AnyN ==
    \A k \in Keys : \A i \in InFirstWindow(k) :
        plog[k][i].okF = plog[k][i].okS

\* C27: for every MaxRequests >= 1, both limiters decide alike on every
\* request of a burst of a fresh key inside one window
C27_Interchangeable ==
    rlConfig.MaxRequests >= 1 => C27_Interchangeable_AnyN

\* with MaxRequests >= 1, a burst inside one window had requests both
\* limiters allowed and then one both rejected
C27_Witness ==
    /\ rlConfig.MaxRequests >= 1
    /\ \E k \in Keys : \E i, j \in InFirstWindow(k) :
           /\ i < j
           /\ plog[k][i].okF /\ plog[k][i].okS
           /\ ~plog[k][j].okF /\ ~plog[k][j].okS
           /\ plog[k][j].at > plog[k][i].at

\* C28: whatever sweeps ran before it, an Allow call of either limiter
\* decides as it does on the maps that no sweep has ever touched
C28_SweepTransparency ==
    plast.op = "allow" =>
        /\ plast.okF = plast.shF
        /\ plast.okS = plast.shS

\* a key that both sweeps had removed is asked again, after an earlier
\* request of the key was rejected
C28_Witness ==
    /\ plast.op = "allow"
    /\ Len(plog[plast.key]) >= 3
    /\ ~plast.entries[plast.key].exists
    /\ plast.key \notin plast.keys
    /\ \E i \in DOMAIN plog[plast.key] :
           ~plog[plast.key][i].okF /\ ~plog[plast.key][i].okS

\* the maps after the first n requests of key k alone, on fresh limiters
RECURSIVE AloneFixed(_, _)
AloneFixed(k, n) ==
    IF n = 0 THEN NewRateLimiter
    ELSE RateLimiterAllow(AloneFixed(k, n - 1), k, plog[k][n].at,
                          rlConfig).entries

RECURSIVE AloneSliding(_, _)
AloneSliding(k, n) ==
    IF n = 0 THEN NewSlidingWindowRateLimiter
    ELSE SlidingAllow(AloneSliding(k, n - 1), k, plog[k][n].at,
                      rlConfig).requests

\* C29: an Allow call for a key leaves the entries of all other keys of
\* both limiters as they were, and every decision for a key is the one
\* that the requests of that key alone give
C29_KeyIsolation ==
    /\ plast.op = "allow" =>
           \A k \in Keys \ {plast.key} :
               /\ entries[k] = plast.entries[k]
               /\ requests[k] = plast.requests[k]
               /\ (k \in swKeys) = (k \in plast.keys)
    /\ \A k \in Keys : \A i \in DOMAIN plog[k] :
           /\ plog[k][i].okF =
                  RateLimiterAllow(AloneFixed(k, i - 1), k, plog[k][i].at,
                                   rlConfig).ok
           /\ plog[k][i].okS =
                  SlidingAllow(AloneSliding(k, i - 1), k, plog[k][i].at,
                               rlConfig).ok

\* a key is allowed while another key, rejected before, keeps its entry
C29_Witness ==
    /\ plast.op = "allow"
    /\ plast.okF /\ plast.okS
    /\ \E k \in Keys \ {plast.key} :
           /\ entries[k].exists /\ requests[k] # <<>>
           /\ \E i \in DOMAIN plog[k] : ~plog[k][i].okF /\ ~plog[k][i].okS

\* request i of key k comes more than Window after every request of the key
\* that the limiter allowed before it, and there is such a request
PastLastAllowed(k, i, Ok(_)) ==
    /\ \E j \in 1..(i - 1) : Ok(plog[k][j])
    /\ \A j \in 1..(i - 1) :
           Ok(plog[k][j]) => Sub(plog[k][i].at, plog[k][j].at) > rlConfig.Window

\* C30: with MaxRequests >= 1, either limiter allows a request of a key
\* that comes more than Window after the last request of the key it
\* allowed, however many requests of the key it rejected in between
C30_NoPermanentLockout ==
    rlConfig.MaxRequests >= 1 =>
        \A k \in Keys : \A i \in DOMAIN plog[k] :
            /\ PastLastAllowed(k, i, LAMBDA r : r.okF) => plog[k][i].okF
            /\ PastLastAllowed(k, i, LAMBDA r : r.okS) => plog[k][i].okS

\* a key is allowed by both limiters again after both had rejected it
C30_Witness ==
    /\ rlConfig.MaxRequests >= 1
    /\ \E k \in Keys : \E i \in DOMAIN plog[k] :
           /\ i >= 3
           /\ ~plog[k][i - 1].okF /\ ~plog[k][i - 1].okS
           /\ PastLastAllowed(k, i, LAMBDA r : r.okF)
           /\ PastLastAllowed(k, i, LAMBDA r : r.okS)
           /\ plog[k][i].okF /\ plog[k][i].okS

\* C31: with MaxRequests >= 1 every entry of the fixed-window map has a
\* count from 1 to MaxRequests, and GetRemaining returns a value from 0 to
\* MaxRequests for every key at every moment
C31_CountInvariant ==
    rlConfig.MaxRequests >= 1 =>
        \A k \in Keys :
            /\ entries[k].exists =>
                   /\ 1 <= entries[k].count
                   /\ entries[k].count <= rlConfig.MaxRequests
            /\ GetRemaining(entries, k, now, rlConfig) \in
                   0..rlConfig.MaxRequests

\* a key has used its whole window and was then rejected: its count stays
\* at MaxRequests and nothing remains
C31_Witness ==
    /\ rlConfig.MaxRequests = 2
    /\ plast.op = "allow" /\ ~plast.okF
    /\ entries[plast.key].count = 2
    /\ GetRemaining(entries, plast.key, now, rlConfig) = 0

\* C32: one and the same signed request with a nonce passes the validator
\* at most once, whatever cleanups run and whenever it is sent again, also
\* when its timestamp lies in the future by up to TimeTolerance
C32_AtMostOnceAcceptance ==
    \A n \in Nonces : Len(passLog[n]) <= 1

\* the signing string buildSignString builds for a request
SignStringOf(req) ==
    BuildSignString(req, signConfig,
                    HeaderOrQuery(req, "xTimestamp", TimestampParam),
                    Str(req.xNonce),
                    HeaderOrQuery(req, "xAppKey", AppKeyParam))

\* C33: a request that carries a value as nonce and no app key, and the
\* request with the same method, path, query, timestamp and body that
\* carries the value as app key and no nonce, have different signing
\* strings, and the second does not pass with the signature of the first
C33_NonceNotConfusable ==
    /\ \A req \in NonceAsAppKey(sreq) :
           sphase # "input" => SignStringOf(req) # SignStringOf(sreq)
    /\ (sphase = "done" /\ first.result = "pass") => second.result # "pass"

\* C34: a request with a fresh nonce that is rejected for its signature
\* has its nonce in the ledger, stamped with the time of the call, for as
\* long as the call is at most Expiry old, and a correctly signed request
\* with that nonce and an acceptable timestamp is then rejected as a
\* duplicate; a request rejected for missing parameters, for its timestamp
\* format or for its timestamp's age leaves the ledger as it was
C34_NonceConsumedFirst ==
    /\ tsLast.result \in {"missing", "badTimestamp", "expired"}
           => ~tsLast.touched
    /\ (/\ tsLast.result = "mismatch"
        /\ tsLast.req.nonce # ""
        /\ Sub(now, tsLast.at) <= sigConfig.Expiry)
           => /\ nonceStore[tsLast.req.nonce] =
                     [exists |-> TRUE, t |-> tsLast.at]
              /\ \A ts \in 0..MaxTime :
                     LET again == [signature |-> TRUE, tsKind |-> "int",
                                   ts |-> ts, nonce |-> tsLast.req.nonce,
                                   sigOK |-> TRUE] IN
                     SigPrecheck(again, now, sigConfig) = "" =>
                         SigValidate(nonceStore, again, now, sigConfig).result
                             = "duplicate"

\* a request with a nonce was rejected for its signature, time has passed
\* and the cleanup it started has run
C34_Witness ==
    /\ tsLast.result = "mismatch"
    /\ tsLast.req.nonce # ""
    /\ now > tsLast.at
    /\ Sub(now, tsLast.at) <= sigConfig.Expiry
    /\ cleanups = 0

\* the goroutines whose next step reads nonceStore, and those whose next
\* step writes it; nothing orders the step with the steps of the others
AboutToRead == {g \in Goroutines : gpc[g] = "lookup"}
AboutToWrite == {g \in Goroutines : gpc[g] = "record"}

\* C35: no goroutine is about to write the nonce map, or to delete from
\* it, while another goroutine is about to read or write it: no two
\* validations, no validation and a cleanupNonce run, no two cleanupNonce
\* runs
C35_NonceLedgerRaceFree ==
    /\ \A g1 \in AboutToWrite :
           \A g2 \in (AboutToRead \cup AboutToWrite) : g1 = g2
    /\ cleanups > 0 => AboutToRead \cup AboutToWrite = {}
    /\ cleanups <= 1

\* C39: no Log call panics, whether it runs before, during or after Close,
\* and every record whose Log call returned is buffered, in the writer's
\* hands or written: none is dropped at a closed file
C39_LogRacingShutdown ==
    /\ lastLog.path # "panic"
    /\ \A rec \in accepted : Copies(rec) >= 1

\* the logged text holds the original value of the member key of the body:
\* a cut text is the first bytes of the body as they were sent, a JSON text
\* holds what its object holds
HoldsOriginal(body, logged, key) ==
    IF logged.kind = "text" THEN key \in body.head
    ELSE /\ key \in DOMAIN logged.val.m
         /\ logged.val.m[key] # Masked

\* C38: the body text stored in the audit record of a JSON body with a
\* sensitive member never holds the original value of that member, whether
\* the body is within the size limit or above it
C38_TruncationKeepsRedaction ==
    mphase = "logged" =>
        \A key \in Range(mfields) \cap DOMAIN mbody.val.m :
            ~HoldsOriginal(mbody, mlogged, key)

\* the rules of the filter: exact entries and blocks of both lists
InAllowList(f, e) == e \in f.whitelist \cup f.whiteNets
InDenyList(f, e) == e \in f.blacklist \cup f.blackNets

\* C37: for a rule that is not in the list, exact address or CIDR block,
\* adding it to the allow list or to the deny list and then removing it
\* from that list leaves IsAllowed as it was for every address
C37_AddRemoveRoundTrip ==
    \A e \in Entries : \A ip \in Addresses :
        /\ ~InAllowList(filt, e) =>
               IsAllowed(RemoveFromWhitelist(AddToWhitelist(filt, e), e), ip)
                   = IsAllowed(filt, ip)
        /\ ~InDenyList(filt, e) =>
               IsAllowed(RemoveFromBlacklist(AddToBlacklist(filt, e), e), ip)
                   = IsAllowed(filt, ip)

\* both readers are switched on for the request being served
BothRead == bodyReq.cfg.LogRequestBody /\ bodyReq.cfg.ValidateBody

\* C36: when the audit stage and the signature validator both read the
\* request body, every stage that reads it, the handler included, gets
\* exactly the bytes the request carried, and until the handler has read
\* them the request still holds exactly those bytes; for the empty body
\* and for bodies below and above the audit size limit
C36_BodyReplayable ==
    BothRead =>
        /\ \A i \in DOMAIN bodyLog :
               bodyLog[i].read => bodyLog[i].bytes = bodyReq.sent
        /\ AtStage # "" => reqBody = bodyReq.sent

\* a body above the audit size limit has been read by both readers and
\* then by the handler
C36_Witness ==
    /\ BothRead
    /\ Len(bodyReq.sent) > bodyReq.cfg.MaxRequestBodySize
    /\ Len(bodyLog) = 3
    /\ \A i \in 1..3 : bodyLog[i].read /\ bodyLog[i].bytes = bodyReq.sent

\* C40: when the audit logger cannot be created, the audit stage that the
\* entry point installed (Audit, AuditWithConfig or SecurityMiddleware.Apply)
\* forwards every request to the next stage and does not panic
C40_ConstructionFailureForwards ==
    auditStage.failed =>
        \A i \in DOMAIN stageLog : stageLog[i].did = "next"

====
